---- MODULE Spec2Model ----
(***************************************************************************)
(* Control-flow model of the vapor-liquid equilibrium solvers of Sindri     *)
(* (src/Sindri/EOSMixture.py, class EOSMixture) and of the older TPCAE      *)
(* solver (src/TPCAE/VLE.py, class VLE).                                    *)
(*                                                                         *)
(* Floating-point quantities live on small integer grids:                   *)
(*   - a convergence error is an integer 0..MaxErr, or NaN;                 *)
(*   - a pressure is an integer 1..MaxP;                                    *)
(*   - a vapor fraction v is an integer multiple of 1/VScale, or NaN;       *)
(*   - np.sum(composition) is 1.0 + dev ulps, dev in -MaxDev..MaxDev.       *)
(* The values the equation of state, the activity-coefficient model and the *)
(* Newton step deliver are inputs of the model (chosen with \E); everything *)
(* the solvers decide from them (dispatch, input checks, bracket check,     *)
(* loop guards, name binding, raising, returning) is computed as in the     *)
(* code.                                                                    *)
(***************************************************************************)
EXTENDS Integers, Sequences, FiniteSets, TLC

(* ------------------------------ bounds -------------------------------- *)
MaxN == 2
MaxKmax == 2
MaxErr == 2
MaxP == 3
MaxDev == 1
VScale == 2
MaxRRKmax == 2
MaxRROver == 2
MaxBl == 1
MaxCoef == 2
MaxRoot == 2
MaxDeltam == 3
MaxEpsilonm == 4
MaxZ == 2
MaxDep == 2
MaxIG == 1
MaxRTP == 1
MaxPoints == 3
MaxParP == 2
MaxTb == 2
SumOne == 2
MaxWilsonSteps == 2

(* ------------------------- program constants -------------------------- *)
\* err = 100 before every outer loop
INITIAL_ERR == 100
\* err = 1000.0 before the Rachford-Rice loop
RR_INITIAL_ERR == 1000
\* v1 = 999.0 before the Rachford-Rice loop
RR_INITIAL_V1 == 999
\* kmax=1000 default of getDewPointPressure / getBubblePointPressure
DEFAULT_KMAX_PRESSURE == 1000
\* _RachfordRice(v, k, z, tol=1e-8, kmax=500) inside getFlash_*
FLASH_RR_KMAX == 500
\* kmax=10000 default of the TPCAE _RachfordRice
VLE_RR_DEFAULT_KMAX == 10000
\* 100 * DBL_EPSILON, in the unit of deltam * deltam - 4.0 * epsilonm (25 DBL_EPSILON)
LIMIT_THRESHOLD == 4
\* the content of an np.empty array element nothing has been stored in
UNINIT == -1
\* the float not-a-number: every ordered comparison with it is False
NaN == -1000

(* ---------------------------- value grids ----------------------------- *)
Methods == {"phi-phi", "UNIFAC", "gamma-phi"}
Solvers == {"getBubblePointPressure", "getDewPointPressure",
            "getBubblePointTemperature", "getDewPointTemperature", "getFlash"}
VLESolvers == {"VLE.getBubblePointPressure", "VLE.getFlash"}
Tols == {1, INITIAL_ERR}
Kmaxs == 0..MaxKmax
ErrVals == (0..MaxErr) \cup {NaN}
PVals == 1..MaxP
Devs == (0 - MaxDev)..MaxDev
\* a vapor fraction handed to _RachfordRice: 0..1 on the grid, or the nan of V0
VIn == (0..VScale) \cup {NaN}
\* a Newton iterate: not confined to 0..1
VOut == (0 - 1)..(VScale + 1)
RRTols == {0, 1}
\* the values of the known variable that matter: the flash pressure is compared
\* with the bracket; a bubble/dew solver only passes its T or P on
Knowns(fn) == IF fn \in {"getFlash", "VLE.getFlash"} THEN PVals ELSE {1}

VARIABLES
    \* the EOSMixture object; db is what has_unifac_in_db answers for its substances,
    \* clamped whether the last setVLEmethod call stored another method than asked for
    n, db, db_consulted, has_UNIFAC, unifac_model, vle_method, clamped, set_exc,
    \* one top-level solver call
    \* (comp: where the current x and y come from; kfrom: the compositions the
    \* K-values of the latest _RachfordRice call were computed from)
    pc, call, variant, fwd, exc, locals, did, ite, err, pd, pb, v, subcalls,
    comp, kfrom,
    \* one _RachfordRice call
    rr_pc, rr_v0, rr_v1, rr_err, rr_iter, rr_tol, rr_kmax,
    \* one getZfromPT evaluation, one _getPhi_i_helper evaluation, one property
    \* evaluation (getAllProps / getCpHSGUA / getDeltaDepartureProps)
    zcalc, phicalc, props,
    \* one run of a binary-diagram data generator
    gen,
    \* what the equation of state delivers for the inputs at hand (env), the
    \* getFlash calls made so far on the mixture (runs), and the frames of two
    \* solver invocations running on the same mixture (frames)
    env, runs, frames,
    \* one run of an iterative solver with the data of its latest pass (solve),
    \* one Newton step of a _RachfordRice (newton), one getPSat_i evaluation
    \* (sat), one start-temperature computation of the bubble-T solver (wilson)
    solve, newton, sat, wilson

mixvars == <<n, db, db_consulted, has_UNIFAC, unifac_model, vle_method, clamped, set_exc>>
callvars == <<pc, call, variant, fwd, exc, locals, did, ite, err, pd, pb, v, subcalls,
              comp, kfrom>>
rrvars == <<rr_pc, rr_v0, rr_v1, rr_err, rr_iter, rr_tol, rr_kmax>>
stepvars == <<solve, newton, sat, wilson>>
auxvars == <<zcalc, phicalc, props, gen, env, runs, frames, stepvars>>
vars == <<mixvars, callvars, rrvars, auxvars>>

(* --------------------------- float helpers ---------------------------- *)
\* a > b on floats: False when either side is NaN
Gt(a, b) == a # NaN /\ b # NaN /\ a > b

\* a <= b on floats: False when either side is NaN
Le(a, b) == a # NaN /\ b # NaN /\ a <= b

\* np.abs(a - b)
AbsDiff(a, b) == IF a = NaN \/ b = NaN THEN NaN ELSE IF a >= b THEN a - b ELSE b - a

(* ------------------------- EOSMixture.__init__ ------------------------ *)
hasUNIFAC_NoLengthCheck(len, dbAnswer) == [result |-> dbAnswer, consulted |-> TRUE]

\* len(self.subs_ids) < 2 -> False, else has_unifac_in_db(self.subs_ids)
hasUNIFAC(len, dbAnswer) ==
    IF len < 2 THEN [result |-> FALSE, consulted |-> FALSE]
               ELSE [result |-> dbAnswer, consulted |-> TRUE]

NoCall == [fn |-> "none", len |-> 0, dev |-> 0, P |-> 0, tol |-> 0, kmax |-> 0]
NoVariant == [fn |-> "none", kind |-> "none"]

CallIdle ==
    /\ pc = "idle" /\ call = NoCall /\ variant = NoVariant /\ fwd = NoCall
    /\ exc = "none" /\ locals = {} /\ did = {} /\ ite = 0 /\ err = 0
    /\ pd = 0 /\ pb = 0 /\ v = 0 /\ subcalls = <<>>
    /\ comp = "none" /\ kfrom = "none"

RRIdle ==
    /\ rr_pc = "idle" /\ rr_v0 = 0 /\ rr_v1 = 0 /\ rr_err = 0 /\ rr_iter = 0
    /\ rr_tol = 0 /\ rr_kmax = 0

\* nothing evaluated, generated or running yet
ZIdle == zcalc = [impl |-> "none"]
PhiIdle == phicalc = [done |-> FALSE]
PropsIdle == props = [pc |-> "idle"]
GenIdle == gen = [pc |-> "idle"]
EnvIdle == env = [pd |-> 0]
RunsIdle == runs = <<>>
FramesIdle == frames = <<>>
SolveIdle == solve = [pc |-> "idle"]
NewtonIdle == newton = [pc |-> "idle"]
SatIdle == sat = [pc |-> "idle"]
WilsonIdle == wilson = [pc |-> "idle"]
StepIdle == SolveIdle /\ NewtonIdle /\ SatIdle /\ WilsonIdle

\* a mixture just constructed, no call in progress
InitMixture ==
    /\ n \in 1..MaxN
    /\ db \in BOOLEAN
    /\ vle_method = "phi-phi"
    /\ has_UNIFAC = hasUNIFAC(n, db).result
    /\ db_consulted = hasUNIFAC(n, db).consulted
    /\ unifac_model = has_UNIFAC
    /\ clamped = FALSE
    /\ set_exc = "none"
    /\ CallIdle
    /\ RRIdle

Init ==
    /\ InitMixture
    /\ ZIdle /\ PhiIdle /\ PropsIdle /\ GenIdle /\ EnvIdle /\ RunsIdle /\ FramesIdle /\ StepIdle

(* ------------------------ EOSMixture.setVLEmethod --------------------- *)
setVLEmethod_NoClamp(hasU, method) == method

setVLEmethod(hasU, method) == IF ~hasU THEN "phi-phi" ELSE method

SetVLEmethod(method) ==
    /\ pc = "idle"
    /\ vle_method' = setVLEmethod(has_UNIFAC, method)
    /\ clamped' = (setVLEmethod(has_UNIFAC, method) # method)
    /\ set_exc' = "none"
    /\ UNCHANGED <<n, db, db_consulted, has_UNIFAC, unifac_model>>
    /\ UNCHANGED <<callvars, rrvars, auxvars>>

(* ---------------------- the solver variants ---------------------------- *)
(* For each variant: the names bound on entry (params), by the code before  *)
(* the loop (prologue), by one pass of the loop body (loop), the names the  *)
(* code after the loop reads before binding them itself (reads), and what   *)
(* each part calls: "guess" an initial-guess helper, "eos" getZfromPT /     *)
(* getPhi_i, "gamma" unifac_model.getGamma, "psat" getPsat / getTsat,       *)
(* "subsolve" a nested top-level solver, "rr" _RachfordRice.                *)

getBubblePointPressure_UNIFAC ==
    [params |-> {"x", "T", "tol", "kmax"},
     prologue |-> {"gamma", "capphi", "PSat", "pb", "err", "ite"},
     pro_calls |-> {"gamma", "psat", "guess"},
     loop |-> {"y", "capphi", "pb_old", "pb", "err"},
     loop_calls |-> {"eos"},
     reads |-> {"y", "pb", "T", "gamma", "PSat", "capphi", "ite"},
     epi_calls |-> {"eos"}]

getBubblePointPressure_phi_phi ==
    [params |-> {"x", "T", "tol", "kmax"},
     prologue |-> {"pb", "k", "y", "err", "ite", "phivap", "philiq"},
     pro_calls |-> {"guess"},
     loop |-> {"zsvap", "zsliq", "zvap", "zliq", "k", "y", "yt", "pb", "err"},
     loop_calls |-> {"eos"},
     reads |-> {"y", "pb", "phivap", "philiq", "k", "ite"},
     epi_calls |-> {}]

getDewPointPressure_phi_phi ==
    [params |-> {"y", "T", "tol", "kmax"},
     prologue |-> {"pd", "k", "x", "err", "ite", "phivap", "philiq"},
     pro_calls |-> {"guess"},
     loop |-> {"zsvap", "zsliq", "zvap", "zliq", "k", "x", "xt", "pd", "err"},
     loop_calls |-> {"eos"},
     reads |-> {"x", "pd", "phivap", "philiq", "k", "ite"},
     epi_calls |-> {}]

getDewPointPressure_UNIFAC ==
    [params |-> {"y", "T", "tol", "kmax"},
     prologue |-> {"Psat", "capphi", "gamma", "pd", "x", "err", "ite"},
     pro_calls |-> {"psat", "guess", "gamma", "eos"},
     loop |-> {"capphi", "err2", "ite2", "pd_old", "pd", "err"},
     loop_calls |-> {"eos", "gamma"},
     reads |-> {"y", "pd", "T", "gamma", "Psat", "capphi", "x", "ite"},
     epi_calls |-> {"eos"}]

getBubblePointTemperature_UNIFAC ==
    [params |-> {"x", "P", "tol", "kmax"},
     prologue |-> {"tsat", "tb", "capphi", "psat", "gamma", "k", "tb2", "f2",
                   "tb1", "y", "f1", "err", "ite"},
     pro_calls |-> {"psat", "guess", "gamma", "eos"},
     loop |-> {"tb", "capphi", "psat", "gamma", "k", "y", "yt", "err",
               "tb2", "tb1", "f2", "f1"},
     loop_calls |-> {"eos", "psat", "gamma"},
     reads |-> {"y", "P", "tb", "gamma", "k", "ite"},
     epi_calls |-> {"eos"}]

getBubblePointTemperature_phi_phi ==
    [params |-> {"x", "P", "tol", "kmax"},
     prologue |-> {"Tbi", "tb", "k", "err", "ite", "tb2", "f2", "tb1", "f1",
                   "y", "phivap", "philiq"},
     pro_calls |-> {"guess"},
     loop |-> {"tb", "zsvap", "zsliq", "zvap", "zliq", "k", "y", "yt", "err",
               "tb2", "tb1", "f2", "f1"},
     loop_calls |-> {"eos"},
     reads |-> {"y", "tb", "phivap", "philiq", "k", "ite"},
     epi_calls |-> {}]

getDewPointTemperature_UNIFAC ==
    [params |-> {"y", "P", "tol", "kmax"},
     prologue |-> {"td", "gamma", "capphi", "psat", "x", "k", "td2", "f2",
                   "td1", "f1", "err", "ite"},
     pro_calls |-> {"psat", "guess", "gamma", "eos"},
     loop |-> {"td", "capphi", "psat", "gamma", "k", "x", "xt", "err",
               "td2", "td1", "f2", "f1"},
     loop_calls |-> {"eos", "psat", "gamma"},
     reads |-> {"y", "P", "td", "x", "gamma", "k", "ite"},
     epi_calls |-> {"eos"}]

getDewPointTemperature_phi_phi ==
    [params |-> {"y", "P", "tol", "kmax"},
     prologue |-> {"Tdi", "td", "k", "td2", "f2", "td1", "f1", "err", "ite",
                   "x", "phivap", "philiq"},
     pro_calls |-> {"guess"},
     loop |-> {"td", "zsvap", "zsliq", "zvap", "zliq", "k", "x", "xt", "err",
               "td2", "td1", "f2", "f1"},
     loop_calls |-> {"eos"},
     reads |-> {"x", "td", "phivap", "philiq", "k", "ite"},
     epi_calls |-> {}]

\* prologue: the two bracket solves, the bracket check, v, and the equal-split x, y
getFlash_phi_phi ==
    [params |-> {"z", "P", "T", "tol", "kmax"},
     prologue |-> {"y", "pd", "pv", "pl", "k", "ite", "x", "pb", "v", "err",
                   "phivap", "philiq"},
     pro_calls |-> {"subsolve"},
     loop |-> {"zsvap", "zsliq", "zvap", "zliq", "k", "vold", "v", "x", "y", "err"},
     loop_calls |-> {"eos", "rr"},
     reads |-> {"x", "y", "v", "phivap", "philiq", "k", "ite"},
     epi_calls |-> {}]

getFlash_UNIFAC ==
    [params |-> {"z", "P", "T", "tol", "kmax"},
     prologue |-> {"y", "pd", "pv", "pl", "k", "ite", "x", "pb", "v", "psat", "err"},
     pro_calls |-> {"subsolve", "psat"},
     loop |-> {"phivap", "gamma", "capphi", "k", "vold", "v", "x", "y", "err"},
     loop_calls |-> {"eos", "gamma", "rr"},
     reads |-> {"x", "y", "v", "phivap", "gamma", "k", "ite"},
     epi_calls |-> {}]

VLE_getBubblePointPressure ==
    [params |-> {"x", "T", "tol", "kmax"},
     prologue |-> {"pb", "k", "y", "err", "ite", "phivap", "philiq"},
     pro_calls |-> {"guess"},
     loop |-> {"zsvap", "zsliq", "zvap", "zliq", "k", "y", "yt", "pb", "err"},
     loop_calls |-> {"eos"},
     reads |-> {"y", "pb", "ite"},
     epi_calls |-> {}]

VLE_getFlash ==
    [params |-> {"z", "P", "T", "tol", "kmax"},
     prologue |-> {"pb", "pd", "v", "err", "ite", "phivap", "philiq", "y", "x"},
     pro_calls |-> {"guess"},
     loop |-> {"zsvap", "zsliq", "zvap", "zliq", "k", "vold", "v", "x", "y", "err"},
     loop_calls |-> {"eos", "rr"},
     reads |-> {"x", "y", "v"},
     epi_calls |-> {}]

PhiPhi(fn) == [fn |-> fn, kind |-> "phi_phi"]
Unifac(fn) == [fn |-> fn, kind |-> "UNIFAC"]
Tpcae(fn) == [fn |-> fn, kind |-> "VLE"]

Variants == {PhiPhi(f) : f \in Solvers} \cup {Unifac(f) : f \in Solvers}
                \cup {Tpcae(f) : f \in VLESolvers}

\* the code of a variant
Body(var) ==
    CASE var = Unifac("getBubblePointPressure") -> getBubblePointPressure_UNIFAC
      [] var = PhiPhi("getBubblePointPressure") -> getBubblePointPressure_phi_phi
      [] var = PhiPhi("getDewPointPressure") -> getDewPointPressure_phi_phi
      [] var = Unifac("getDewPointPressure") -> getDewPointPressure_UNIFAC
      [] var = Unifac("getBubblePointTemperature") -> getBubblePointTemperature_UNIFAC
      [] var = PhiPhi("getBubblePointTemperature") -> getBubblePointTemperature_phi_phi
      [] var = Unifac("getDewPointTemperature") -> getDewPointTemperature_UNIFAC
      [] var = PhiPhi("getDewPointTemperature") -> getDewPointTemperature_phi_phi
      [] var = PhiPhi("getFlash") -> getFlash_phi_phi
      [] var = Unifac("getFlash") -> getFlash_UNIFAC
      [] var = Tpcae("VLE.getBubblePointPressure") -> VLE_getBubblePointPressure
      [] var = Tpcae("VLE.getFlash") -> VLE_getFlash

IsFlash(var) == var.fn \in {"getFlash", "VLE.getFlash"}
HasBracket(var) == var.fn = "getFlash"

(* ------------------------ the five dispatchers ------------------------ *)
Dispatch_DropsKmax(fn, method, args) ==
    IF method = "phi-phi"
    THEN [variant |-> PhiPhi(fn), fwd |-> [args EXCEPT !.kmax = 0], exc |-> "none"]
    ELSE IF method = "UNIFAC"
    THEN [variant |-> Unifac(fn), fwd |-> [args EXCEPT !.kmax = 0], exc |-> "none"]
    ELSE [variant |-> NoVariant, fwd |-> NoCall, exc |-> "NotImplementedError"]

\* if self.vle_method == "phi-phi": ..._phi_phi(x, T, tol=tol, kmax=kmax)
\* elif self.vle_method == "UNIFAC": ..._UNIFAC(x, T, tol=tol, kmax=kmax)
\* else: raise NotImplementedError
Dispatch(fn, method, args) ==
    IF method = "phi-phi"
    THEN [variant |-> PhiPhi(fn), fwd |-> args, exc |-> "none"]
    ELSE IF method = "UNIFAC"
    THEN [variant |-> Unifac(fn), fwd |-> args, exc |-> "none"]
    ELSE [variant |-> NoVariant, fwd |-> NoCall, exc |-> "NotImplementedError"]

\* a caller invokes one of the five top-level solvers of the mixture
Call(fn, len, dev, P, tol, kmax) ==
    /\ pc = "idle"
    /\ LET args == [fn |-> fn, len |-> len, dev |-> dev, P |-> P,
                    tol |-> tol, kmax |-> kmax]
           d == Dispatch(fn, vle_method, args)
       IN /\ call' = args
          /\ variant' = d.variant
          /\ fwd' = d.fwd
          /\ exc' = d.exc
          /\ pc' = IF d.exc = "none" THEN "entry" ELSE "raised"
          /\ locals' = IF d.exc = "none" THEN Body(d.variant).params ELSE {}
    /\ UNCHANGED <<did, ite, err, pd, pb, v, subcalls, comp, kfrom>>
    /\ UNCHANGED <<mixvars, rrvars, auxvars>>

\* a caller invokes a solver of the TPCAE VLE class (no vle_method, no dispatch)
VLECall(fn, len, dev, P, tol, kmax) ==
    /\ pc = "idle"
    /\ LET args == [fn |-> fn, len |-> len, dev |-> dev, P |-> P,
                    tol |-> tol, kmax |-> kmax]
       IN /\ call' = args
          /\ variant' = Tpcae(fn)
          /\ fwd' = args
          /\ locals' = Body(Tpcae(fn)).params
    /\ pc' = "entry"
    /\ UNCHANGED <<exc, did, ite, err, pd, pb, v, subcalls, comp, kfrom>>
    /\ UNCHANGED <<mixvars, rrvars, auxvars>>

(* --------------------------- the input checks ------------------------- *)
InputContractOK_NoSumCheck(len, nsub, dev) == len = nsub

\* assert len(x) == self.n ; assert np.sum(x) == 1.0
InputContractOK(len, nsub, dev) == len = nsub /\ dev = 0

CheckInput ==
    /\ pc = "entry"
    /\ IF InputContractOK(fwd.len, n, fwd.dev)
       THEN /\ pc' = IF HasBracket(variant) THEN "bracket" ELSE "prologue"
            /\ exc' = exc
       ELSE /\ pc' = "raised"
            /\ exc' = "AssertionError"
    /\ UNCHANGED <<call, variant, fwd, locals, did, ite, err, pd, pb, v, subcalls,
                   comp, kfrom>>
    /\ UNCHANGED <<mixvars, rrvars, auxvars>>

(* ------------------------- before the loop ---------------------------- *)
\* y = np.full(self.n, 1.0 / self.n) ; x = np.full(self.n, 1.0 / self.n):
\* whatever x and y held before (prev), they are the equal split now
EqualSplit_KeepsBracket(prev) == IF prev = "none" THEN "equal_split" ELSE prev

EqualSplit(prev) == "equal_split"

\* v = 0.5 of VLE.getFlash, on the grid
VLE_V0 == VScale \div 2

\* the initial guess and the loop variables of a solver without bracket check
Prologue ==
    /\ pc = "prologue"
    /\ locals' = locals \cup Body(variant).prologue
    /\ did' = did \cup Body(variant).pro_calls
    /\ err' = INITIAL_ERR
    /\ ite' = 0
    /\ v' = IF IsFlash(variant) THEN VLE_V0 ELSE v
    /\ comp' = IF IsFlash(variant) THEN EqualSplit("none") ELSE comp
    /\ pc' = "loop"
    /\ UNCHANGED <<call, variant, fwd, exc, pd, pb, subcalls, kfrom>>
    /\ UNCHANGED <<mixvars, rrvars, auxvars>>

BracketOK_UpperOnly(pdew, P, pbub) == Le(P, pbub)

\* the domain check: not (pd <= P <= pb) raises ValueError
BracketOK(pdew, P, pbub) == Le(pdew, P) /\ Le(P, pbub)

\* v = (pb - P) / (pb - pd) on float64: 0/0 is nan
V0(pbub, P, pdew) ==
    IF pbub = pdew THEN NaN ELSE ((pbub - P) * VScale) \div (pbub - pdew)

\* the nested getDewPointPressure(z, T) / getBubblePointPressure(z, T):
\* dispatched on vle_method again; neither tol nor kmax is passed, so the
\* callee's defaults apply
SubCall(fn) ==
    [fn |-> fn, kind |-> Dispatch(fn, vle_method, NoCall).variant.kind,
     tol |-> "default", kmax |-> DEFAULT_KMAX_PRESSURE]

\* _RachfordRice(v, k, z, tol=1e-8, kmax=500) in getFlash_phi_phi / _UNIFAC,
\* _RachfordRice(v, k, z) in VLE.getFlash
RRSubCall(var) ==
    IF var.kind = "VLE"
    THEN [fn |-> "_RachfordRice", kind |-> "njit", tol |-> "default",
          kmax |-> VLE_RR_DEFAULT_KMAX]
    ELSE [fn |-> "_RachfordRice", kind |-> "njit", tol |-> "1e-8",
          kmax |-> FLASH_RR_KMAX]

\* getFlash_*: the two bracket solves, the check, the initial v, x, y
FlashBracket(pdew, pbub) ==
    /\ pc = "bracket"
    /\ pd' = pdew
    /\ pb' = pbub
    /\ subcalls' = <<SubCall("getDewPointPressure"), SubCall("getBubblePointPressure")>>
    /\ did' = did \cup {"subsolve"}
    /\ IF BracketOK(pdew, fwd.P, pbub)
       THEN /\ v' = V0(pbub, fwd.P, pdew)
            /\ comp' = EqualSplit("bracket")
            /\ locals' = locals \cup Body(variant).prologue
            /\ err' = INITIAL_ERR
            /\ ite' = 0
            /\ pc' = "loop"
            /\ exc' = exc
       ELSE /\ pc' = "raised"
            /\ exc' = "ValueError"
            /\ locals' = locals \cup {"y", "pd", "pv", "pl", "k", "ite", "x", "pb"}
            /\ comp' = "bracket"
            /\ UNCHANGED <<v, err, ite>>
    /\ UNCHANGED <<call, variant, fwd, kfrom>>
    /\ UNCHANGED <<mixvars, rrvars, auxvars>>

(* ------------------------------ the loop ------------------------------ *)
\* getDewPointPressure_UNIFAC nests a fixed-point loop on gamma in each pass:
\* err2 = 100 ; ite2 = 0 ; while err2 > tol and ite2 < kmax
HasGammaLoop(var) == var = Unifac("getDewPointPressure")

GammaLoop(tol, kmax) ==
    [fn |-> "gamma_loop", kind |-> "inline", tol |-> "caller", kmax |-> kmax]

LoopCond_OffByOne(e, tol, i, kmax) == Gt(e, tol) /\ i <= kmax

\* while err > tol and ite < kmax
LoopCond(e, tol, i, kmax) == Gt(e, tol) /\ i < kmax

\* one pass of the loop body of a bubble/dew solver; e is the new error
LoopIter(e) ==
    /\ pc = "loop"
    /\ ~IsFlash(variant)
    /\ LoopCond(err, fwd.tol, ite, fwd.kmax)
    /\ ite' = ite + 1
    /\ locals' = locals \cup Body(variant).loop
    /\ did' = did \cup Body(variant).loop_calls
    /\ err' = e
    /\ subcalls' = IF HasGammaLoop(variant)
                    THEN Append(subcalls, GammaLoop(fwd.tol, fwd.kmax))
                    ELSE subcalls
    /\ UNCHANGED <<pc, call, variant, fwd, exc, pd, pb, v, comp, kfrom>>
    /\ UNCHANGED <<mixvars, rrvars, auxvars>>

\* one pass of the flash loop body in which _RachfordRice returns v1;
\* a nan v makes every Newton iterate nan, and only a nan v does
FlashIter(v1) ==
    /\ pc = "loop"
    /\ IsFlash(variant)
    /\ LoopCond(err, fwd.tol, ite, fwd.kmax)
    /\ v1 = NaN <=> v = NaN
    /\ ite' = ite + 1
    /\ locals' = locals \cup Body(variant).loop
    /\ did' = did \cup Body(variant).loop_calls
    /\ v' = v1
    /\ err' = AbsDiff(v1, v)
    /\ kfrom' = comp
    /\ comp' = "rachford_rice"
    /\ subcalls' = Append(subcalls, RRSubCall(variant))
    /\ UNCHANGED <<pc, call, variant, fwd, exc, pd, pb>>
    /\ UNCHANGED <<mixvars, rrvars, auxvars>>

\* one pass of the flash loop body in which _RachfordRice never returns
FlashIterHangs ==
    /\ pc = "loop"
    /\ IsFlash(variant)
    /\ LoopCond(err, fwd.tol, ite, fwd.kmax)
    /\ v # NaN
    /\ ite' = ite + 1
    /\ locals' = (locals \cup Body(variant).loop) \ {"v", "x", "y", "err"}
    /\ did' = did \cup Body(variant).loop_calls
    /\ pc' = "rr_hung"
    /\ kfrom' = comp
    /\ subcalls' = Append(subcalls, RRSubCall(variant))
    /\ UNCHANGED <<call, variant, fwd, exc, err, pd, pb, v, comp>>
    /\ UNCHANGED <<mixvars, rrvars, auxvars>>

\* the code after the loop: reading an unbound name raises UnboundLocalError
LoopExit ==
    /\ pc = "loop"
    /\ ~LoopCond(err, fwd.tol, ite, fwd.kmax)
    /\ IF Body(variant).reads \subseteq locals
       THEN /\ pc' = "returned"
            /\ did' = did \cup Body(variant).epi_calls
            /\ exc' = exc
       ELSE /\ pc' = "raised"
            /\ exc' = "UnboundLocalError"
            /\ did' = did
    /\ UNCHANGED <<call, variant, fwd, locals, ite, err, pd, pb, v, subcalls,
                   comp, kfrom>>
    /\ UNCHANGED <<mixvars, rrvars, auxvars>>

\* the call is over; the mixture object lives on
Finish ==
    /\ pc \in {"returned", "raised"}
    /\ pc' = "idle" /\ call' = NoCall /\ variant' = NoVariant /\ fwd' = NoCall
    /\ exc' = "none" /\ locals' = {} /\ did' = {} /\ ite' = 0 /\ err' = 0
    /\ pd' = 0 /\ pb' = 0 /\ v' = 0 /\ subcalls' = <<>>
    /\ comp' = "none" /\ kfrom' = "none"
    /\ UNCHANGED <<mixvars, rrvars, auxvars>>

Next ==
    \/ \E m \in Methods : SetVLEmethod(m)
    \/ \E fn \in Solvers : \E len \in {n - 1, n, n + 1}, dev \in Devs, P \in Knowns(fn),
          tol \in Tols, kmax \in Kmaxs : Call(fn, len, dev, P, tol, kmax)
    \/ \E fn \in VLESolvers : \E len \in {n - 1, n, n + 1}, dev \in Devs, P \in Knowns(fn),
          tol \in Tols, kmax \in Kmaxs : VLECall(fn, len, dev, P, tol, kmax)
    \/ CheckInput
    \/ Prologue
    \/ \E pdew \in PVals, pbub \in PVals : FlashBracket(pdew, pbub)
    \/ \E e \in ErrVals : LoopIter(e)
    \/ \E v1 \in VOut \cup {NaN} : FlashIter(v1)
    \/ FlashIterHangs
    \/ LoopExit
    \/ Finish

Spec == Init /\ [][Next]_vars

(* --------------------------- _RachfordRice ---------------------------- *)
(* The function on its own: v1 is what the Newton step delivers.           *)

\* v0 = v ; v1 = 999.0 ; err = 1000.0 ; iter = 0
RRCall(v0, tol, kmax) ==
    /\ rr_pc = "idle"
    /\ rr_pc' = "loop"
    /\ rr_v0' = v0
    /\ rr_v1' = RR_INITIAL_V1
    /\ rr_err' = RR_INITIAL_ERR
    /\ rr_iter' = 0
    /\ rr_tol' = tol
    /\ rr_kmax' = kmax
    /\ UNCHANGED <<mixvars, callvars, auxvars>>

\* while err > tol or iter > kmax
RRCond(e, tol, it, kmax) == Gt(e, tol) \/ it > kmax

\* iter += 1 ; v1 = v0 - f / dfdv ; err = np.abs(v0 - v1) ; v0 = v1
RRStep(v1) ==
    /\ rr_pc = "loop"
    /\ RRCond(rr_err, rr_tol, rr_iter, rr_kmax)
    /\ rr_iter < rr_kmax + MaxRROver
    /\ v1 = NaN <=> rr_v0 = NaN
    /\ rr_iter' = rr_iter + 1
    /\ rr_v1' = v1
    /\ rr_err' = AbsDiff(rr_v0, v1)
    /\ rr_v0' = v1
    /\ UNCHANGED <<rr_pc, rr_tol, rr_kmax>>
    /\ UNCHANGED <<mixvars, callvars, auxvars>>

\* return v1
RRReturn ==
    /\ rr_pc = "loop"
    /\ ~RRCond(rr_err, rr_tol, rr_iter, rr_kmax)
    /\ rr_pc' = "returned"
    /\ UNCHANGED <<rr_v0, rr_v1, rr_err, rr_iter, rr_tol, rr_kmax>>
    /\ UNCHANGED <<mixvars, callvars, auxvars>>

RRFinish ==
    /\ rr_pc = "returned"
    /\ rr_pc' = "idle" /\ rr_v0' = 0 /\ rr_v1' = 0 /\ rr_err' = 0 /\ rr_iter' = 0
    /\ rr_tol' = 0 /\ rr_kmax' = 0
    /\ UNCHANGED <<mixvars, callvars, auxvars>>

NextRR ==
    \/ \E v0 \in VIn, tol \in RRTols, kmax \in 0..MaxRRKmax : RRCall(v0, tol, kmax)
    \/ \E v1 \in VOut \cup {NaN} : RRStep(v1)
    \/ RRReturn
    \/ RRFinish

SpecRR == Init /\ [][NextRR]_vars

(* ----------------------------- getZfromPT ----------------------------- *)
(* The dimensionless groups Bl, deltal, epsilonl, thetal are integers; the  *)
(* cubic solver (polyEqSolver.solve_cubic, not part of these sources) hands *)
(* back three values, each a root of the cubic it was given or nan.         *)

ZImpls == {"EOSMixture", "VLE_PR1976"}
RootGrid == (0 - MaxRoot)..MaxRoot
ZInputs == {[impl |-> "none", Bl |-> b, deltal |-> d, epsilonl |-> e, thetal |-> t] :
                b \in 0..MaxBl, d \in 0..MaxCoef, e \in (0 - 1)..1, t \in 0..MaxCoef}

\* _b, _c, _d of _getZfromPT_helper (the leading coefficient is 1.0)
CubicCoefficients(Bl, deltal, epsilonl, thetal) ==
    [b |-> deltal - Bl - 1,
     c |-> thetal + epsilonl - deltal * (1 + Bl),
     d |-> 0 - (epsilonl * (Bl + 1) + Bl * thetal)]

\* the Peng-Robinson cubic of VLE_PR1976.getZfromPT, A = thetal and B = Bl
VLE_CubicCoefficients(A, B) ==
    [b |-> 0 - (1 - B),
     c |-> A - 3 * B * B - 2 * B,
     d |-> 0 - (A * B - B * B - B * B * B)]

IsRoot(co, z) == z * z * z + co.b * z * z + co.c * z + co.d = 0

\* what solve_cubic may hand back for the cubic co
SolveCubicOutputs(co) == [1..3 -> {z \in RootGrid : IsRoot(co, z)} \cup {NaN}]

NonNegative(r) == Le(0, r)
Positive(r) == Gt(r, 0)

getZfromPT_helper_KeepsNegative(roots) == SelectSeq(roots, LAMBDA r : r # NaN)

\* real_values = roots[roots >= 0]
getZfromPT_helper(roots) == SelectSeq(roots, NonNegative)

\* real_values = roots[roots > 0]
VLE_getZfromPT(roots) == SelectSeq(roots, Positive)

ZResult(impl, co, roots, out) ==
    [impl |-> impl, Bl |-> zcalc.Bl, deltal |-> zcalc.deltal,
     epsilonl |-> zcalc.epsilonl, thetal |-> zcalc.thetal,
     coef |-> co, roots |-> roots, out |-> out]

\* EOSMixture.getZfromPT
GetZfromPT ==
    /\ zcalc \in ZInputs
    /\ LET co == CubicCoefficients(zcalc.Bl, zcalc.deltal, zcalc.epsilonl, zcalc.thetal)
       IN \E roots \in SolveCubicOutputs(co) :
             zcalc' = ZResult("EOSMixture", co, roots, getZfromPT_helper(roots))
    /\ UNCHANGED <<mixvars, callvars, rrvars, phicalc, props, gen, env, runs, frames,
                 stepvars>>

\* VLE_PR1976.getZfromPT
VLEGetZfromPT ==
    /\ zcalc \in ZInputs
    /\ LET co == VLE_CubicCoefficients(zcalc.thetal, zcalc.Bl)
       IN \E roots \in SolveCubicOutputs(co) :
             zcalc' = ZResult("VLE_PR1976", co, roots, VLE_getZfromPT(roots))
    /\ UNCHANGED <<mixvars, callvars, rrvars, phicalc, props, gen, env, runs, frames,
                 stepvars>>

InitZ ==
    /\ InitMixture
    /\ zcalc \in ZInputs
    /\ PhiIdle /\ PropsIdle /\ GenIdle /\ EnvIdle /\ RunsIdle /\ FramesIdle /\ StepIdle

NextZ ==
    \/ GetZfromPT
    \/ VLEGetZfromPT

SpecZ == InitZ /\ [][NextZ]_vars

(* --------------------------- _getPhi_i_helper ------------------------- *)
(* deltam is an integer multiple of 5 sqrt(DBL_EPSILON) and epsilonm of     *)
(* 25 DBL_EPSILON, so deltam * deltam - 4.0 * epsilonm is an integer        *)
(* multiple of 25 DBL_EPSILON and 100 * DBL_EPSILON is LIMIT_THRESHOLD.     *)

PhiInputs == {[done |-> FALSE, deltam |-> d, epsilonm |-> e] :
                 d \in (0 - MaxDeltam)..MaxDeltam,
                 e \in (0 - MaxEpsilonm)..MaxEpsilonm}

Abs(a) == IF a < 0 THEN 0 - a ELSE a

\* np.sqrt: nan below zero, and zero only at zero
Sqrt(a) ==
    IF a < 0 THEN NaN
    ELSE CHOOSE r \in 0..a : r * r <= a /\ (r + 1) * (r + 1) > a

\* np.power(a, 1.5)
Power15(a) == IF a < 0 THEN NaN ELSE a * Sqrt(a)

UsesLimitingForm_NoAbs(d) == d < LIMIT_THRESHOLD

\* if abs(deltam2_minus_4epislonm) < 100 * DBL_EPSILON
UsesLimitingForm(d) == Abs(d) < LIMIT_THRESHOLD

\* the branch taken and, in the general formula, its two divisors
GetPhi_i_helper ==
    /\ phicalc \in PhiInputs
    /\ LET d == phicalc.deltam * phicalc.deltam - 4 * phicalc.epsilonm
       IN phicalc' =
            IF UsesLimitingForm(d)
            THEN [done |-> TRUE, deltam |-> phicalc.deltam, epsilonm |-> phicalc.epsilonm,
                  d |-> d, branch |-> "limit", sqrt |-> 0, pow15 |-> 0]
            ELSE [done |-> TRUE, deltam |-> phicalc.deltam, epsilonm |-> phicalc.epsilonm,
                  d |-> d, branch |-> "general", sqrt |-> Sqrt(d), pow15 |-> Power15(d)]
    /\ UNCHANGED <<mixvars, callvars, rrvars, zcalc, props, gen, env, runs, frames,
                 stepvars>>

InitPhi ==
    /\ InitMixture
    /\ phicalc \in PhiInputs
    /\ ZIdle /\ PropsIdle /\ GenIdle /\ EnvIdle /\ RunsIdle /\ FramesIdle /\ StepIdle

NextPhi == GetPhi_i_helper

SpecPhi == InitPhi /\ [][NextPhi]_vars

(* ------------------------- property evaluation ------------------------ *)
(* A property value (one component of a DeltaProp) is an integer. The       *)
(* inputs of one evaluation: whether the substances have Cp coefficients,   *)
(* the average molecular weight (0 when unknown), the filtered root sets    *)
(* getZfromPT returns at (P, T) and at (Pref, Tref), R_IG*T/P, the          *)
(* ideal-gas property change, the departure per unit Z at the state and at  *)
(* the reference, and whether the quadrature raises.                        *)

ZSets == {S \in SUBSET (1..MaxZ) : Cardinality(S) <= 2}
NoPropsResult == [outcome |-> "none"]
PropsInputs ==
    {[pc |-> "idle", fn |-> "none", res |-> NoPropsResult,
      hasCp |-> c, molwt |-> m, zs |-> zs, zsref |-> zr, rtp |-> r, ig |-> g,
      dep_state |-> ds, dep_ref |-> dr, quad_fails |-> q] :
        c \in BOOLEAN, m \in 0..1, zs \in ZSets, zr \in ZSets, r \in 1..MaxRTP,
        g \in 1..MaxIG, ds \in 1..MaxDep, dr \in 1..MaxDep, q \in BOOLEAN}

MISSING_CP_LOG == "Couldn't calculate properties: missing Cp paramaters"

Min(S) == CHOOSE a \in S : \A b \in S : a <= b
Max(S) == CHOOSE a \in S : \A b \in S : a >= b

\* DeltaProp.subtract (Properties.py): self minus the argument
Subtract(a, b) == a - b

\* getDepartureProps(y, P, T, V, Z) at the state or at the reference
getDepartureProps(in, which, Z) ==
    IF in.quad_fails THEN [exc |-> "quad", val |-> 0]
    ELSE [exc |-> "none",
          val |-> (IF which = "ref" THEN in.dep_ref ELSE in.dep_state) * Z]

getDeltaDepartureProps_Swapped(in, Zref, Z) ==
    LET ref == getDepartureProps(in, "ref", Zref)
        state == getDepartureProps(in, "state", Z)
    IN IF ref.exc # "none" THEN ref
       ELSE IF state.exc # "none" THEN state
       ELSE [exc |-> "none", val |-> Subtract(ref.val, state.val)]

\* ref = getDepartureProps(ref) ; state = getDepartureProps(state) ;
\* delta = state.subtract(ref)
getDeltaDepartureProps(in, Zref, Z) ==
    LET ref == getDepartureProps(in, "ref", Zref)
        state == getDepartureProps(in, "state", Z)
    IN IF ref.exc # "none" THEN ref
       ELSE IF state.exc # "none" THEN state
       ELSE [exc |-> "none", val |-> Subtract(state.val, ref.val)]

\* getCpHSGUA: np.min / np.max of an empty root array raise ValueError
getCpHSGUA(in) ==
    IF in.zs = {} \/ in.zsref = {}
    THEN [exc |-> "ValueError", pliq |-> 0, pvap |-> 0]
    ELSE LET ddp_liq == getDeltaDepartureProps(in, Min(in.zsref), Min(in.zs))
             ddp_vap == getDeltaDepartureProps(in, Max(in.zsref), Max(in.zs))
         IN IF ddp_liq.exc # "none" THEN [exc |-> ddp_liq.exc, pliq |-> 0, pvap |-> 0]
            ELSE IF ddp_vap.exc # "none" THEN [exc |-> ddp_vap.exc, pliq |-> 0, pvap |-> 0]
            ELSE [exc |-> "none",
                  pliq |-> Subtract(in.ig, ddp_liq.val),
                  pvap |-> Subtract(in.ig, ddp_vap.val)]

PropertyGroups_AbortsWithoutCp(in) ==
    LET p == getCpHSGUA(in)
    IN [exc |-> IF in.hasCp THEN p.exc ELSE "ValueError",
        igprops |-> in.ig, pliq |-> p.pliq, pvap |-> p.pvap,
        log |-> <<"CpLog">>, calls |-> {"getIGProps", "getCpLog", "getCpHSGUA"}]

\* if MixSubs.hasCp(): igprops, the Cp log and getCpHSGUA ; else: 0, 0, 0 and
\* the message
PropertyGroups(in) ==
    IF in.hasCp
    THEN LET p == getCpHSGUA(in)
         IN [exc |-> p.exc, igprops |-> in.ig, pliq |-> p.pliq, pvap |-> p.pvap,
             log |-> <<"CpLog">>, calls |-> {"getIGProps", "getCpLog", "getCpHSGUA"}]
    ELSE [exc |-> "none", igprops |-> 0, pliq |-> 0, pvap |-> 0,
          log |-> <<MISSING_CP_LOG>>, calls |-> {}]

\* one returned Props record
PropsRecord(in, Z, group, p) ==
    [Z |-> Z, V |-> Z * in.rtp,
     rho |-> IF in.molwt # 0 THEN [known |-> TRUE, of |-> Z * in.rtp]
                             ELSE [known |-> FALSE, of |-> 0],
     P |-> "P", T |-> "T", Fugacity |-> [of |-> Z],
     IGProps |-> group.igprops, Props |-> p, log |-> group.log]

\* getAllProps, top to bottom
getAllProps(in) ==
    IF in.zs = {}
    THEN [outcome |-> "raised", exc |-> "ValueError", calls |-> {"getZfromPT"}]
    ELSE LET group == PropertyGroups(in)
         IN IF group.exc # "none"
            THEN [outcome |-> "raised", exc |-> group.exc,
                  calls |-> {"getZfromPT"} \cup group.calls]
            ELSE [outcome |-> "returned", exc |-> "none",
                  calls |-> {"getZfromPT", "getFugacity"} \cup group.calls,
                  liq |-> PropsRecord(in, Min(in.zs), group, group.pliq),
                  vap |-> PropsRecord(in, Max(in.zs), group, group.pvap)]

GetAllProps ==
    /\ props \in PropsInputs
    /\ props' = [props EXCEPT !.pc = "done", !.fn = "getAllProps",
                                !.res = getAllProps(props)]
    /\ UNCHANGED <<mixvars, callvars, rrvars, zcalc, phicalc, gen, env, runs, frames,
                 stepvars>>

\* getCpHSGUA called on a mixture that has Cp coefficients
GetCpHSGUA ==
    /\ props \in PropsInputs
    /\ props.hasCp
    /\ LET p == getCpHSGUA(props)
       IN props' = [props EXCEPT !.pc = "done", !.fn = "getCpHSGUA",
                      !.res = [outcome |-> IF p.exc = "none" THEN "returned" ELSE "raised",
                               exc |-> p.exc, pliq |-> p.pliq, pvap |-> p.pvap]]
    /\ UNCHANGED <<mixvars, callvars, rrvars, zcalc, phicalc, gen, env, runs, frames,
                 stepvars>>

GetDeltaDepartureProps(Zref, Z) ==
    /\ props \in PropsInputs
    /\ LET d == getDeltaDepartureProps(props, Zref, Z)
       IN props' = [props EXCEPT !.pc = "done", !.fn = "getDeltaDepartureProps",
                      !.res = [outcome |-> IF d.exc = "none" THEN "returned" ELSE "raised",
                               exc |-> d.exc, Zref |-> Zref, Z |-> Z, delta |-> d.val]]
    /\ UNCHANGED <<mixvars, callvars, rrvars, zcalc, phicalc, gen, env, runs, frames,
                 stepvars>>

InitProps ==
    /\ InitMixture
    /\ props \in PropsInputs
    /\ ZIdle /\ PhiIdle /\ GenIdle /\ EnvIdle /\ RunsIdle /\ FramesIdle /\ StepIdle

NextProps ==
    \/ GetAllProps
    \/ GetCpHSGUA
    \/ \E Zref \in 1..MaxZ, Z \in 1..MaxZ : GetDeltaDepartureProps(Zref, Z)

SpecProps == InitProps /\ [][NextProps]_vars

(* --------------------- binary-diagram data generators ----------------- *)
(* An array element holds the index of the composition point whose solve    *)
(* produced its value, or UNINIT. cause[j] is how the solve of point j      *)
(* ended: "ok", "empty_roots" (getZfromPT returned no root and np.max /     *)
(* np.min raised ValueError inside the solver), "assertion", or "pending".  *)

Generators == {"isothermalBinaryMixtureGenData", "isobaricBinaryMixtureGenData"}
SolveOutcomes == {"ok", "empty_roots", "assertion"}

\* assert self.n == 2 ; x = np.atleast_1d(x) ; the np.empty result arrays
GenCall(fn, L) ==
    /\ gen = [pc |-> "idle"]
    /\ gen' = IF n # 2
              THEN [pc |-> "raised", fn |-> fn, exc |-> "AssertionError"]
              ELSE [pc |-> "loop", fn |-> fn, exc |-> "none", L |-> L, i |-> 0,
                    cause |-> [j \in 0..(L - 1) |-> "pending"],
                    x |-> [j \in 0..(L - 1) |-> j],
                    y |-> [j \in 0..(L - 1) |-> UNINIT],
                    u |-> [j \in 0..(L - 1) |-> UNINIT],
                    phi_vap_vec |-> [j \in 0..(L - 1) |-> UNINIT],
                    phi_liq_vec |-> [j \in 0..(L - 1) |-> UNINIT],
                    kvec |-> [j \in 0..(L - 1) |-> UNINIT]]
    /\ UNCHANGED <<mixvars, callvars, rrvars, zcalc, phicalc, props, env, runs, frames,
                 stepvars>>

\* a[i - 1] on an array of length L: index -1 is the last element
Previous(i, L) == (i - 1 + L) % L

\* the data stored for point i after a bare except: the previous element of
\* every result array. The statements of the inner try only read and write
\* existing elements (i - 1 >= -1 is a valid index of every non-empty
\* array), so the inner except, which copies element i + 1, is never entered.
FallbackPoint(g) ==
    LET i == g.i
        p == Previous(g.i, g.L)
    IN [g EXCEPT !.x[i] = g.x[p], !.y[i] = g.y[p], !.u[i] = g.u[p],
                 !.phi_vap_vec[i] = g.phi_vap_vec[p],
                 !.phi_liq_vec[i] = g.phi_liq_vec[p],
                 !.kvec[i] = g.kvec[p]]

\* the data stored for point i after a solve that returned
SolvedPoint(g) ==
    LET i == g.i
    IN [g EXCEPT !.y[i] = i, !.u[i] = i, !.phi_vap_vec[i] = i,
                 !.phi_liq_vec[i] = i, !.kvec[i] = i]

\* one pass of "for i in range(len(x))": try the solve, except: copy
GenPoint(outcome) ==
    /\ gen.pc = "loop"
    /\ gen.i < gen.L
    /\ LET stored == IF outcome = "ok" THEN SolvedPoint(gen) ELSE FallbackPoint(gen)
       IN gen' = [stored EXCEPT !.cause[gen.i] = outcome, !.i = gen.i + 1]
    /\ UNCHANGED <<mixvars, callvars, rrvars, zcalc, phicalc, props, env, runs, frames,
                 stepvars>>

\* return x, y, P, phi_vap_vec, phi_liq_vec, kvec
GenReturn ==
    /\ gen.pc = "loop"
    /\ gen.i = gen.L
    /\ gen' = [gen EXCEPT !.pc = "returned"]
    /\ UNCHANGED <<mixvars, callvars, rrvars, zcalc, phicalc, props, env, runs, frames,
                 stepvars>>

NextGen ==
    \/ \E fn \in Generators, L \in 1..MaxPoints : GenCall(fn, L)
    \/ \E outcome \in SolveOutcomes : GenPoint(outcome)
    \/ GenReturn

SpecGen == Init /\ [][NextGen]_vars

(* ----------------------- getFlash, called twice ----------------------- *)
(* For one mixture and one (z, T) the equation of state is a function: env  *)
(* holds the dew and bubble pressures the bracket solves arrive at and the  *)
(* vapor fraction _RachfordRice returns in each pass. What np.empty hands   *)
(* out is whatever the allocator last left there: g.                        *)

FlashFractions == {0, VScale}
FlashEnvs == [pd : PVals, pb : PVals, newton : [1..MaxKmax -> FlashFractions]]
\* two different contents of freshly allocated memory
Garbage == {0, 1}
RaisedResult(e) ==
    [outcome |-> "raised", exc |-> e, v |-> 0, ite |-> 0,
     phivap |-> [init |-> FALSE, bits |-> 0], philiq |-> [init |-> FALSE, bits |-> 0]]

\* the outer loop of getFlash_*, run to its end
RECURSIVE FlashLoop(_, _, _, _, _)
FlashLoop(e, args, i, vf, er) ==
    IF LoopCond(er, args.tol, i, args.kmax)
    THEN LET v1 == IF vf = NaN THEN NaN ELSE e.newton[i + 1]
         IN FlashLoop(e, args, i + 1, v1, AbsDiff(v1, vf))
    ELSE [ite |-> i, v |-> vf, err |-> er]

\* phivap = np.empty(...) of getFlash_phi_phi holds g until the loop body
\* stores into it; getFlash_UNIFAC binds phivap in the loop body
Buffer(i, g) == IF i = 0 THEN [init |-> FALSE, bits |-> g] ELSE [init |-> TRUE, bits |-> i]

\* one whole getFlash(z, P, T, tol, kmax) call
getFlash(method, nsub, e, args, g) ==
    LET d == Dispatch("getFlash", method, args)
    IN IF d.exc # "none" THEN RaisedResult(d.exc)
       ELSE IF ~InputContractOK(args.len, nsub, args.dev) THEN RaisedResult("AssertionError")
       ELSE IF ~BracketOK(e.pd, args.P, e.pb) THEN RaisedResult("ValueError")
       ELSE LET end == FlashLoop(e, args, 0, V0(e.pb, args.P, e.pd), INITIAL_ERR)
                code == Body(d.variant)
                bound == code.params \cup code.prologue
                            \cup (IF end.ite > 0 THEN code.loop ELSE {})
            IN IF ~(code.reads \subseteq bound) THEN RaisedResult("UnboundLocalError")
               ELSE [outcome |-> "returned", exc |-> "none", v |-> end.v, ite |-> end.ite,
                     phivap |-> Buffer(end.ite, g), philiq |-> Buffer(end.ite, g)]

\* the first getFlash call on the mixture
GetFlashFirst(len, dev, P, tol, kmax, g) ==
    /\ pc = "idle"
    /\ runs = <<>>
    /\ LET args == [fn |-> "getFlash", len |-> len, dev |-> dev, P |-> P,
                    tol |-> tol, kmax |-> kmax]
       IN runs' = <<[args |-> args, method |-> vle_method,
                     result |-> getFlash(vle_method, n, env, args, g)]>>
    /\ UNCHANGED <<mixvars, callvars, rrvars, zcalc, phicalc, props, gen, env, frames,
                 stepvars>>

\* the caller repeats the call with the same arguments
GetFlashAgain(g) ==
    /\ pc = "idle"
    /\ Len(runs) = 1
    /\ runs' = Append(runs, [args |-> runs[1].args, method |-> vle_method,
                              result |-> getFlash(vle_method, n, env, runs[1].args, g)])
    /\ UNCHANGED <<mixvars, callvars, rrvars, zcalc, phicalc, props, gen, env, frames,
                 stepvars>>

InitTwice ==
    /\ InitMixture
    /\ env \in FlashEnvs
    /\ RunsIdle
    /\ ZIdle /\ PhiIdle /\ PropsIdle /\ GenIdle /\ FramesIdle /\ StepIdle

NextTwice ==
    \/ \E m \in Methods : SetVLEmethod(m)
    \/ \E P \in PVals, tol \in Tols, kmax \in Kmaxs, g \in Garbage :
          GetFlashFirst(n, 0, P, tol, kmax, g)
    \/ \E g \in Garbage : GetFlashAgain(g)

SpecTwice == InitTwice /\ [][NextTwice]_vars

(* ------------------ two invocations on one mixture -------------------- *)
(* Two callers run getBubblePointPressure on the same EOSMixture object,    *)
(* their steps interleaved. For an input T the equation of state is a       *)
(* function: env.step[T][pb] is the pressure one pass of the loop body      *)
(* arrives at from pb.                                                      *)

\* caller t solves for input t
Callers == {1, 2}
ParInputs == Callers
ParP == 1..MaxParP
ParTols == {0, 1}
ParEnvs == [step : [ParInputs -> [ParP -> ParP]]]
IdleFrame == [pc |-> "idle"]

BindLocals_OnSharedObject(fr, t, new) ==
    [u \in DOMAIN fr |->
        IF u = t THEN new
        ELSE IF fr[u].pc = "loop" THEN [fr[u] EXCEPT !.pb = new.pb]
        ELSE fr[u]]

\* an assignment in a solver body binds a name of the running frame
BindLocals(fr, t, new) == [fr EXCEPT ![t] = new]

\* caller t enters getBubblePointPressure(x, T, tol, kmax): dispatch on
\* vle_method, then the initial guess and err = 100, ite = 0
ParCall(t, T, tol, kmax) ==
    /\ frames[t].pc = "idle"
    /\ LET args == [fn |-> "getBubblePointPressure", len |-> n, dev |-> 0, P |-> T,
                    tol |-> tol, kmax |-> kmax]
           d == Dispatch("getBubblePointPressure", vle_method, args)
       IN frames' = BindLocals(frames, t,
                       [pc |-> "loop", variant |-> d.variant, args |-> d.fwd,
                        pb |-> T, err |-> INITIAL_ERR, ite |-> 0])
    /\ UNCHANGED <<mixvars, callvars, rrvars, zcalc, phicalc, props, gen, env, runs,
                 stepvars>>

\* one pass of the loop body in frame fr
ParPass(e, fr) ==
    LET pb1 == e.step[fr.args.P][fr.pb]
    IN [fr EXCEPT !.ite = fr.ite + 1, !.pb = pb1, !.err = AbsDiff(pb1, fr.pb)]

ParIter(t) ==
    /\ frames[t].pc = "loop"
    /\ LoopCond(frames[t].err, frames[t].args.tol, frames[t].ite, frames[t].args.kmax)
    /\ frames' = BindLocals(frames, t, ParPass(env, frames[t]))
    /\ UNCHANGED <<mixvars, callvars, rrvars, zcalc, phicalc, props, gen, env, runs,
                 stepvars>>

ParReturn(t) ==
    /\ frames[t].pc = "loop"
    /\ ~LoopCond(frames[t].err, frames[t].args.tol, frames[t].ite, frames[t].args.kmax)
    /\ frames' = [frames EXCEPT ![t].pc = "returned"]
    /\ UNCHANGED <<mixvars, callvars, rrvars, zcalc, phicalc, props, gen, env, runs,
                 stepvars>>

InitPar ==
    /\ InitMixture
    /\ env \in ParEnvs
    /\ frames = [t \in Callers |-> IdleFrame]
    /\ ZIdle /\ PhiIdle /\ PropsIdle /\ GenIdle /\ RunsIdle /\ StepIdle

NextPar ==
    \/ \E t \in Callers, tol \in ParTols, kmax \in Kmaxs : ParCall(t, t, tol, kmax)
    \/ \E t \in Callers : ParIter(t)
    \/ \E t \in Callers : ParReturn(t)

SpecPar == InitPar /\ [][NextPar]_vars

(* ----------------- one Newton step of a _RachfordRice ----------------- *)
(* Floats are exact fractions [num, den] in lowest terms with den > 0;      *)
(* NaNF (den = 0) stands for every non-finite float (inf, -inf, nan), which *)
(* is what an element-wise numpy division by zero produces.                 *)

RECURSIVE SumTo(_, _)
\* np.sum of the first len entries of an array of integers
SumTo(a, len) == IF len = 0 THEN 0 ELSE a[len] + SumTo(a, len - 1)

\* the compositions of length len in halves
Halves(len) == {c \in [1..len -> 0..2] : SumTo(c, len) = 2}

RECURSIVE GCD(_, _)
GCD(a, b) == IF b = 0 THEN a ELSE GCD(b, a % b)

NaNF == [num |-> 0, den |-> 0]
IsNaNF(a) == a.den = 0

Frac(a, b) ==
    IF b = 0 THEN NaNF
    ELSE LET g == GCD(Abs(a), Abs(b))
         IN IF b < 0 THEN [num |-> (0 - a) \div g, den |-> (0 - b) \div g]
            ELSE [num |-> a \div g, den |-> b \div g]

FAdd(a, b) ==
    IF IsNaNF(a) \/ IsNaNF(b) THEN NaNF
    ELSE Frac(a.num * b.den + b.num * a.den, a.den * b.den)

FSub(a, b) ==
    IF IsNaNF(a) \/ IsNaNF(b) THEN NaNF
    ELSE Frac(a.num * b.den - b.num * a.den, a.den * b.den)

FMul(a, b) ==
    IF IsNaNF(a) \/ IsNaNF(b) THEN NaNF
    ELSE Frac(a.num * b.num, a.den * b.den)

\* a / b; a zero divisor gives a non-finite value
FDiv(a, b) ==
    IF IsNaNF(a) \/ IsNaNF(b) THEN NaNF
    ELSE Frac(a.num * b.den, a.den * b.num)

FNeg(a) == IF IsNaNF(a) THEN NaNF ELSE Frac(0 - a.num, a.den)
FAbs(a) == IF IsNaNF(a) THEN NaNF ELSE Frac(Abs(a.num), a.den)
FOne == Frac(1, 1)
FZero == Frac(0, 1)

RECURSIVE FSum(_, _)
\* np.sum of the first len entries of an array of fractions
FSum(a, len) == IF len = 0 THEN FZero ELSE FAdd(a[len], FSum(a, len - 1))

\* K-values and feed compositions of a binary mixture
KVals == {Frac(1, 2), Frac(1, 1), Frac(2, 1)}
Feeds == {[i \in 1..2 |-> Frac(c[i], 2)] : c \in Halves(2)}

NewtonInputs ==
    [pc : {"input"}, v0 : {Frac(a, VScale) : a \in VOut}, k : [1..2 -> KVals],
     z : Feeds]

\* f = np.sum(z*(k - 1)/(1 + v0*(k - 1)))
RachfordRiceF(v0, k, z) ==
    FSum([i \in 1..2 |->
            FDiv(FMul(z[i], FSub(k[i], FOne)),
                 FAdd(FOne, FMul(v0, FSub(k[i], FOne))))], 2)

\* EOSMixture.py: dfdv = -np.sum(z*(k - 1.0)**2 / (1.0 + v0*(k - 1.0))**2)
RachfordRiceDfdv(v0, k, z) ==
    FNeg(FSum([i \in 1..2 |->
            LET km1 == FSub(k[i], FOne)
                d == FAdd(FOne, FMul(v0, km1))
            IN FDiv(FMul(z[i], FMul(km1, km1)), FMul(d, d))], 2))

\* VLE.py: dfdv = -np.sum(z*(k - 1)**2 / (1 + v0*(k - 1)**2))
VLE_RachfordRiceDfdv(v0, k, z) ==
    FNeg(FSum([i \in 1..2 |->
            LET km1 == FSub(k[i], FOne)
            IN FDiv(FMul(z[i], FMul(km1, km1)),
                    FAdd(FOne, FMul(v0, FMul(km1, km1))))], 2))

\* v1 = v0 - f/dfdv ; err = np.abs(v0 - v1). The quotient is a scalar division
\* in compiled code, which raises ZeroDivisionError on a zero divisor.
NewtonStep(v0, f, dfdv) ==
    IF ~IsNaNF(dfdv) /\ dfdv.num = 0
    THEN [exc |-> "ZeroDivisionError", f |-> f, dfdv |-> dfdv, v1 |-> NaNF,
          err |-> NaNF]
    ELSE LET v1 == FSub(v0, FDiv(f, dfdv))
         IN [exc |-> "none", f |-> f, dfdv |-> dfdv, v1 |-> v1,
             err |-> FAbs(FSub(v0, v1))]

\* one pass of the loop of EOSMixture._RachfordRice
RachfordRiceStep ==
    /\ newton.pc = "input"
    /\ newton' = [pc |-> "done", impl |-> "EOSMixture", in |-> newton,
                  res |-> NewtonStep(newton.v0,
                             RachfordRiceF(newton.v0, newton.k, newton.z),
                             RachfordRiceDfdv(newton.v0, newton.k, newton.z))]
    /\ UNCHANGED <<mixvars, callvars, rrvars, zcalc, phicalc, props, gen, env, runs,
                   frames, solve, sat, wilson>>

\* one pass of the loop of VLE._RachfordRice
VLERachfordRiceStep ==
    /\ newton.pc = "input"
    /\ newton' = [pc |-> "done", impl |-> "VLE", in |-> newton,
                  res |-> NewtonStep(newton.v0,
                             RachfordRiceF(newton.v0, newton.k, newton.z),
                             VLE_RachfordRiceDfdv(newton.v0, newton.k, newton.z))]
    /\ UNCHANGED <<mixvars, callvars, rrvars, zcalc, phicalc, props, gen, env, runs,
                   frames, solve, sat, wilson>>

InitNewton ==
    /\ InitMixture
    /\ newton \in NewtonInputs
    /\ ZIdle /\ PhiIdle /\ PropsIdle /\ GenIdle /\ EnvIdle /\ RunsIdle /\ FramesIdle
    /\ SolveIdle /\ SatIdle /\ WilsonIdle

NextNewton ==
    \/ RachfordRiceStep
    \/ VLERachfordRiceStep

SpecNewton == InitNewton /\ [][NextNewton]_vars

(* ------------- one run of an iterative solver, pass by pass ----------- *)
(* solve holds the loop variables of one run of a *_phi_phi, temperature or *)
(* flash variant after its latest pass. A normalization sum (yt, xt) is an   *)
(* integer with SumOne standing for 1.0; pressures, temperatures and         *)
(* compositions are exact fractions; v is on the VScale grid. What the       *)
(* equation of state delivers in a pass (the root sets, the normalization    *)
(* sum, the K-values, the Rachford-Rice root) is an input of the pass.       *)

SumVals == {0, SumOne - 1, SumOne, SumOne + 1, NaN}
SolveTols == {0, 1}
SolveVariants ==
    Variants \ {Unifac("getBubblePointPressure"), Unifac("getDewPointPressure")}

IsPressure(var) ==
    var.fn \in {"getBubblePointPressure", "getDewPointPressure",
                "VLE.getBubblePointPressure"}
IsTemperature(var) ==
    var.fn \in {"getBubblePointTemperature", "getDewPointTemperature"}
IsBubblePressure(var) ==
    var.fn \in {"getBubblePointPressure", "VLE.getBubblePointPressure"}

\* the root sets two getZfromPT calls of one pass return (vapor, liquid)
AllRoots == 1..MaxRoot
RootCases ==
    {<<AllRoots, AllRoots>>, <<{MaxRoot}, AllRoots>>, <<{}, AllRoots>>,
     <<AllRoots, {}>>}
NoEvals == [pass |-> 0]

\* the K-values of a flash pass: all one, or one above and one below one
KCases ==
    {<<Frac(1, 1), Frac(1, 1)>>, <<Frac(2, 1), Frac(1, 2)>>,
     <<Frac(1, 2), Frac(2, 1)>>}

\* zvap = np.max(zsvap)
SelectVaporRoot(zs) == Max(zs)

SelectLiquidRoot_TakesLargest(zs) == Max(zs)

\* zliq = np.min(zsliq)
SelectLiquidRoot(zs) == Min(zs)

\* zsvap = getZfromPT(P, T, y); zsliq = getZfromPT(P, T, x); zvap; zliq;
\* phivap[i] = getPhi_i(i, y, P, T, zvap); philiq[i] = getPhi_i(i, x, P, T, zliq)
\* (at: the version of the unknown's estimate the calls were made with)
PhiPhiEvals(zsvap, zsliq, at, pass) ==
    [pass |-> pass,
     zsvap |-> [comp |-> "y", at |-> at, roots |-> zsvap],
     zsliq |-> [comp |-> "x", at |-> at, roots |-> zsliq],
     phivap |-> [comp |-> "y", at |-> at, Z |-> SelectVaporRoot(zsvap)],
     philiq |-> [comp |-> "x", at |-> at, Z |-> SelectLiquidRoot(zsliq)]]

\* getPhiVap(y, P, T): zsvap = getZfromPT(P, T, y); zvap = np.max(zsvap)
getPhiVap(zsvap, at, pass) ==
    [pass |-> pass,
     zsvap |-> [comp |-> "y", at |-> at, roots |-> zsvap],
     phivap |-> [comp |-> "y", at |-> at, Z |-> SelectVaporRoot(zsvap)]]

\* a normalization sum, a residual and a vapor fraction as floats
SumF(a) == IF a = NaN THEN NaNF ELSE Frac(a, SumOne)
VF(a) == IF a = NaN THEN NaNF ELSE Frac(a, VScale)

\* np.sum(x*k) - 1.0 (bubble), np.sum(y/k) - 1.0 (dew)
Residual(a) == IF a = NaN THEN NaN ELSE a - SumOne

\* y = y / yt, x = x / xt: the sum of the renormalized composition
Renormalized(a) == IF a = NaN \/ a = 0 THEN NaN ELSE SumOne

\* the sum of the other-phase composition a pressure solver carries on:
\* bubble: y = x*k (kept as it is); dew: x = y/k; x = x/xt
CarriedSum(var, a) == IF IsBubblePressure(var) THEN a ELSE Renormalized(a)

\* pb = pb*yt ; pd = pd/xt
UpdatePressure(var, P, a) ==
    IF IsBubblePressure(var) THEN FMul(P, SumF(a)) ELSE FDiv(P, SumF(a))

\* tb = tb1 - f1*((tb1 - tb2)/(f1 - f2))
SecantUpdate(T1, T2, f1, f2) ==
    FSub(T1, FMul(SumF(f1), FDiv(FSub(T1, T2), FSub(SumF(f1), SumF(f2)))))

SecantShift_LosesPrevious(sec, Tnew, fnew, ver) ==
    [T1 |-> Tnew, T2 |-> Tnew, f1 |-> fnew, f2 |-> sec.f1,
     T1_ver |-> ver, T2_ver |-> ver, f1_at |-> ver, f2_at |-> sec.f1_at]

\* tb2 = tb1; tb1 = tb; f2 = f1; f1 = np.sum(k*x) - 1.0
\* (T1_ver, T2_ver: the pass that produced the temperature, 0 and -1 for the
\* two of the prologue; f1_at, f2_at: the temperature the residual was
\* evaluated at)
SecantShift(sec, Tnew, fnew, ver) ==
    [T1 |-> Tnew, T2 |-> sec.T1, f1 |-> fnew, f2 |-> sec.f1,
     T1_ver |-> ver, T2_ver |-> sec.T1_ver, f1_at |-> ver, f2_at |-> sec.f1_at]

FlashSplit_YFromFeed(z, vf, k) ==
    [x |-> [i \in 1..2 |->
              FDiv(z[i], FAdd(FOne, FMul(vf, FSub(k[i], FOne))))],
     y |-> [i \in 1..2 |-> FMul(k[i], z[i])]]

\* x = z/(1.0 + v*(k - 1.0)); y = k*x
FlashSplit(z, vf, k) ==
    LET x == [i \in 1..2 |->
                FDiv(z[i], FAdd(FOne, FMul(vf, FSub(k[i], FOne))))]
    IN [x |-> x, y |-> [i \in 1..2 |-> FMul(k[i], x[i])]]

\* the prologue: the guess of the unknown (P = 1, tb = 10 and tb*1.1 = 11 with
\* the residuals f2 = 1/SumOne and f1 of the Wilson or ideal K-values), the
\* normalized start composition, v and the equal split of a flash
SolveCall(var, tol, kmax, s1, v0, z) ==
    /\ solve.pc = "idle"
    /\ var.kind = "UNIFAC" => has_UNIFAC
    /\ IF IsTemperature(var) THEN s1 # NaN ELSE s1 = SumOne
    /\ IF IsFlash(var)
       THEN v0 = (IF var.kind = "VLE" THEN VLE_V0 ELSE v0)
       ELSE v0 = 0 /\ z = [i \in 1..2 |-> Frac(1, 2)]
    /\ solve' = [pc |-> "loop", variant |-> var, tol |-> tol, kmax |-> kmax,
                 ite |-> 0, err |-> INITIAL_ERR, exc |-> "none",
                 yt |-> SumOne, csum |-> SumOne,
                 P |-> FOne, Pold |-> FOne,
                 sec |-> [T1 |-> Frac(11, 1), T2 |-> Frac(10, 1),
                          f1 |-> Residual(s1), f2 |-> 1,
                          T1_ver |-> 0, T2_ver |-> 0 - 1,
                          f1_at |-> 0, f2_at |-> 0 - 1],
                 old |-> [T1 |-> Frac(11, 1), T2 |-> Frac(10, 1),
                          f1 |-> Residual(s1), f2 |-> 1],
                 z |-> z, k |-> [i \in 1..2 |-> FOne], v |-> v0,
                 x |-> [i \in 1..2 |-> Frac(1, 2)],
                 y |-> [i \in 1..2 |-> Frac(1, 2)],
                 evals |-> NoEvals]
    /\ UNCHANGED <<mixvars, callvars, rrvars, zcalc, phicalc, props, gen, env, runs,
                   frames, newton, sat, wilson>>

\* np.max / np.min of an empty root array raises ValueError
EmptyRoots(var, rc) == var.kind # "UNIFAC" /\ (rc[1] = {} \/ rc[2] = {})

\* one pass of getBubblePointPressure_phi_phi, getDewPointPressure_phi_phi or
\* VLE.getBubblePointPressure; a is the normalization sum yt / xt
PressurePass(a, rc) ==
    /\ solve.pc = "loop"
    /\ IsPressure(solve.variant)
    /\ LoopCond(solve.err, solve.tol, solve.ite, solve.kmax)
    /\ (solve.csum = NaN \/ IsNaNF(solve.P)) => a = NaN
    /\ IF EmptyRoots(solve.variant, rc)
       THEN /\ a = SumOne
            /\ solve' = [solve EXCEPT !.pc = "raised", !.exc = "ValueError",
                                      !.ite = solve.ite + 1]
       ELSE solve' = [solve EXCEPT
                !.ite = solve.ite + 1,
                !.evals = PhiPhiEvals(rc[1], rc[2], solve.ite, solve.ite + 1),
                !.yt = a,
                !.csum = CarriedSum(solve.variant, a),
                !.Pold = solve.P,
                !.P = UpdatePressure(solve.variant, solve.P, a),
                !.err = AbsDiff(SumOne, a)]
    /\ UNCHANGED <<mixvars, callvars, rrvars, zcalc, phicalc, props, gen, env, runs,
                   frames, newton, sat, wilson>>

\* one pass of one of the four temperature solvers; a is the normalization
\* sum at the new temperature
SecantPass(a, rc) ==
    /\ solve.pc = "loop"
    /\ IsTemperature(solve.variant)
    /\ LoopCond(solve.err, solve.tol, solve.ite, solve.kmax)
    /\ solve.variant.kind = "UNIFAC" => rc = <<AllRoots, AllRoots>>
    /\ LET q == solve.sec
           Tnew == SecantUpdate(q.T1, q.T2, q.f1, q.f2)
       IN /\ (solve.csum = NaN \/ IsNaNF(Tnew)) => a = NaN
          /\ IF EmptyRoots(solve.variant, rc)
             THEN /\ a = (IF solve.csum = NaN \/ IsNaNF(Tnew) THEN NaN ELSE SumOne)
                  /\ solve' = [solve EXCEPT !.pc = "raised", !.exc = "ValueError",
                                            !.ite = solve.ite + 1]
             ELSE solve' = [solve EXCEPT
                      !.ite = solve.ite + 1,
                      !.evals = IF solve.variant.kind = "UNIFAC" THEN NoEvals
                                ELSE PhiPhiEvals(rc[1], rc[2], solve.ite + 1,
                                                 solve.ite + 1),
                      !.yt = a,
                      !.err = AbsDiff(SumOne, a),
                      !.csum = Renormalized(a),
                      !.old = [T1 |-> q.T1, T2 |-> q.T2, f1 |-> q.f1, f2 |-> q.f2],
                      !.sec = SecantShift(q, Tnew, Residual(a), solve.ite + 1)]
    /\ UNCHANGED <<mixvars, callvars, rrvars, zcalc, phicalc, props, gen, env, runs,
                   frames, newton, sat, wilson>>

\* one pass of getFlash_phi_phi, getFlash_UNIFAC or VLE.getFlash; kk are the
\* K-values of the pass and v1 is what _RachfordRice returns for them
FlashPass(rc, kk, v1) ==
    /\ solve.pc = "loop"
    /\ IsFlash(solve.variant)
    /\ LoopCond(solve.err, solve.tol, solve.ite, solve.kmax)
    /\ solve.variant.kind = "UNIFAC" => rc[2] = AllRoots
    /\ v1 = NaN <=> solve.v = NaN
    /\ LET dfdv == IF solve.variant.kind = "VLE"
                   THEN VLE_RachfordRiceDfdv(VF(solve.v), kk, solve.z)
                   ELSE RachfordRiceDfdv(VF(solve.v), kk, solve.z)
           split == FlashSplit(solve.z, VF(v1), kk)
       IN IF rc[1] = {} \/ rc[2] = {}
          THEN /\ v1 = solve.v /\ kk = solve.k
               /\ solve' = [solve EXCEPT !.pc = "raised", !.exc = "ValueError",
                                         !.ite = solve.ite + 1]
          ELSE IF ~IsNaNF(dfdv) /\ dfdv.num = 0
          THEN /\ v1 = solve.v
               /\ solve' = [solve EXCEPT
                      !.pc = "raised", !.exc = "ZeroDivisionError",
                      !.ite = solve.ite + 1, !.k = kk,
                      !.evals = IF solve.variant.kind = "UNIFAC"
                                THEN getPhiVap(rc[1], 0, solve.ite + 1)
                                ELSE PhiPhiEvals(rc[1], rc[2], 0, solve.ite + 1)]
          ELSE solve' = [solve EXCEPT
                      !.ite = solve.ite + 1,
                      !.evals = IF solve.variant.kind = "UNIFAC"
                                THEN getPhiVap(rc[1], 0, solve.ite + 1)
                                ELSE PhiPhiEvals(rc[1], rc[2], 0, solve.ite + 1),
                      !.k = kk, !.v = v1, !.x = split.x, !.y = split.y,
                      !.err = AbsDiff(v1, solve.v)]
    /\ UNCHANGED <<mixvars, callvars, rrvars, zcalc, phicalc, props, gen, env, runs,
                   frames, newton, sat, wilson>>

\* the loop test fails: the return statement, after phivap = getPhiVap(y, P, T)
\* in the two UNIFAC temperature solvers (zs is the root set of that call)
SolveReturn(zs) ==
    /\ solve.pc = "loop"
    /\ ~LoopCond(solve.err, solve.tol, solve.ite, solve.kmax)
    /\ IF IsTemperature(solve.variant) /\ solve.variant.kind = "UNIFAC"
       THEN IF zs = {}
            THEN solve' = [solve EXCEPT !.pc = "raised", !.exc = "ValueError"]
            ELSE solve' = [solve EXCEPT
                     !.pc = "returned",
                     !.evals = getPhiVap(zs, solve.ite, solve.ite)]
       ELSE /\ zs = AllRoots
            /\ solve' = [solve EXCEPT !.pc = "returned"]
    /\ UNCHANGED <<mixvars, callvars, rrvars, zcalc, phicalc, props, gen, env, runs,
                   frames, newton, sat, wilson>>

NextSolve ==
    \/ \E var \in SolveVariants, tol \in SolveTols, kmax \in Kmaxs,
          s1 \in SumVals, v0 \in VIn, z \in Feeds :
          SolveCall(var, tol, kmax, s1, v0, z)
    \/ \E a \in SumVals, rc \in RootCases : PressurePass(a, rc)
    \/ \E a \in SumVals, rc \in RootCases : SecantPass(a, rc)
    \/ \E rc \in RootCases, kk \in KCases, v1 \in VOut \cup {NaN} :
          FlashPass(rc, kk, v1)
    \/ \E zs \in {AllRoots, {MaxRoot}, {}} : SolveReturn(zs)

\* the arrays of a run have two entries: a binary mixture, here one that
\* has a UNIFAC model so that every variant can be called
InitSolve ==
    /\ Init
    /\ n = 2
    /\ has_UNIFAC

SpecSolve == InitSolve /\ [][NextSolve]_vars

(* ------- the start temperature of getBubblePointTemperature_phi_phi ---- *)
(* Temperatures are whole kelvins and compositions are in halves. steps is  *)
(* what the Wilson correlation gives at the temperatures the refinement     *)
(* visits: steps[j] is the j-th Newton step f/f', 0 at a root of f.         *)

\* on the grid of whole kelvins err < 1e-8 holds for err = 0 only
WILSON_TOL == 1
WILSON_KMAX == 1000
WILSON_INITIAL_ERR == 999
\* Tbi[i] = 100.0 for a substance whose Tb is not positive
TB_DEFAULT == 100

TbVals == {0} \cup {200 * j : j \in 1..MaxTb}
StepVals == {0 - 1, 0, 1}

WilsonInputs ==
    [pc : {"input"}, x : Halves(n), Tb : [1..n -> TbVals],
     steps : [1..MaxWilsonSteps -> StepVals]]

RECURSIVE WilsonLoop(_, _, _, _)
\* while k < kmax and err < tol: k += 1; told = T - f/f'; err = |T - told|; T = told
WilsonLoop(T, k, e, steps) ==
    IF k < WILSON_KMAX /\ e < WILSON_TOL
    THEN LET told == T - (IF k + 1 <= Len(steps) THEN steps[k + 1] ELSE 0)
         IN WilsonLoop(told, k + 1, Abs(T - told), steps)
    ELSE T

\* _helper_bubble_T_guess_from_wilson(x, P, T, Pcs, Tcs, omegas)
helper_bubble_T_guess_from_wilson(T, steps) ==
    WilsonLoop(T, 0, WILSON_INITIAL_ERR, steps)

\* Tbi of the bubble-temperature prologue
Tbi(Tb) == [i \in DOMAIN Tb |-> IF Tb[i] > 0 THEN Tb[i] ELSE TB_DEFAULT]

\* np.sum(x * Tbi), x in halves
WeightedTb(x, Tb) ==
    SumTo([i \in DOMAIN x |-> x[i] * Tbi(Tb)[i]], Len(x)) \div 2

\* the prologue of getBubblePointTemperature_phi_phi up to tb
BubbleTStart ==
    /\ wilson.pc = "input"
    /\ wilson' = [pc |-> "done", caller |-> "getBubblePointTemperature_phi_phi",
                  steps |-> wilson.steps,
                  T_in |-> WeightedTb(wilson.x, wilson.Tb),
                  T_out |-> helper_bubble_T_guess_from_wilson(
                                WeightedTb(wilson.x, wilson.Tb), wilson.steps)]
    /\ UNCHANGED <<mixvars, callvars, rrvars, zcalc, phicalc, props, gen, env, runs,
                   frames, solve, newton, sat>>

\* a direct call of the helper at the temperature of the first substance
GuessFromWilson ==
    /\ wilson.pc = "input"
    /\ wilson' = [pc |-> "done", caller |-> "none", steps |-> wilson.steps,
                  T_in |-> wilson.Tb[1],
                  T_out |-> helper_bubble_T_guess_from_wilson(wilson.Tb[1],
                                                              wilson.steps)]
    /\ UNCHANGED <<mixvars, callvars, rrvars, zcalc, phicalc, props, gen, env, runs,
                   frames, solve, newton, sat>>

InitWilson ==
    /\ InitMixture
    /\ wilson \in WilsonInputs
    /\ ZIdle /\ PhiIdle /\ PropsIdle /\ GenIdle /\ EnvIdle /\ RunsIdle /\ FramesIdle
    /\ SolveIdle /\ NewtonIdle /\ SatIdle

NextWilson ==
    \/ BubbleTStart
    \/ GuessFromWilson

SpecWilson == InitWilson /\ [][NextWilson]_vars

(* -------------------------- EOSMixture.getPSat_i ---------------------- *)
(* The substance answers hasAntoine() and checkAntoineRange(T) and gives    *)
(* the Antoine pressure and the getPvpAW estimate at T; eos[P0] is the      *)
(* pressure the pure-substance saturation solve returns when started at P0. *)

SatInputs ==
    [pc : {"input"}, has_antoine : BOOLEAN, check_antoine_range : BOOLEAN,
     antoine : 1..MaxP, aw : 1..MaxP, eos : [1..MaxP -> 1..MaxP]]

UsesAntoine_IgnoresRange(has_antoine, check_antoine_range) == has_antoine

\* if has_antoine and check_antoine_range
UsesAntoine(has_antoine, check_antoine_range) ==
    has_antoine /\ check_antoine_range

getPSat_i(in) ==
    IF UsesAntoine(in.has_antoine, in.check_antoine_range)
    THEN [P |-> in.antoine, start |-> 0,
          calls |-> <<"hasAntoine", "checkAntoineRange", "getPvpAntoine">>]
    ELSE [P |-> in.eos[in.aw], start |-> in.aw,
          calls |-> <<"hasAntoine", "checkAntoineRange", "getPvpAW",
                      "EOSPureSubstanceInterface", "getPvp">>]

GetPSat_i ==
    /\ sat.pc = "input"
    /\ sat' = [pc |-> "done", in |-> sat, res |-> getPSat_i(sat)]
    /\ UNCHANGED <<mixvars, callvars, rrvars, zcalc, phicalc, props, gen, env, runs,
                   frames, solve, newton, wilson>>

InitSat ==
    /\ InitMixture
    /\ sat \in SatInputs
    /\ ZIdle /\ PhiIdle /\ PropsIdle /\ GenIdle /\ EnvIdle /\ RunsIdle /\ FramesIdle
    /\ SolveIdle /\ NewtonIdle /\ WilsonIdle

NextSat == GetPSat_i

SpecSat == InitSat /\ [][NextSat]_vars

(* ============================== claims ================================ *)

InCall == pc # "idle" /\ variant # NoVariant
BracketDone == variant.fn = "getFlash" /\ subcalls # <<>>

(* C1: on a mixture without UNIFAC, vle_method is "phi-phi" after every    *)
(* setVLEmethod call whatever string was requested, the call raises        *)
(* nothing, and no dispatch (top-level or nested) reaches a *_UNIFAC        *)
(* variant or calls unifac_model.                                          *)
C1_ClampedToPhiPhi ==
    ~has_UNIFAC =>
        /\ vle_method = "phi-phi"
        /\ set_exc = "none"
        /\ variant.kind # "UNIFAC"
        /\ "gamma" \notin did
        /\ \A i \in 1..Len(subcalls) : subcalls[i].kind # "UNIFAC"

C1_Witness ==
    /\ ~has_UNIFAC
    /\ clamped
    /\ pc = "returned"
    /\ variant = PhiPhi("getFlash")

(* C2: a mixture of fewer than 2 substances has no UNIFAC and the group    *)
(* database was not consulted for it; the UNIFAC model object exists iff   *)
(* the feasibility check returned true; has_UNIFAC (and the model object)  *)
(* never change after construction.                                        *)
C2_UnifacDecidedAtConstruction ==
    /\ [](/\ n < 2 => (~has_UNIFAC /\ ~db_consulted)
          /\ unifac_model <=> has_UNIFAC)
    /\ [][has_UNIFAC' = has_UNIFAC /\ unifac_model' = unifac_model]_vars

C2_Witness ==
    /\ n < 2
    /\ db
    /\ ~has_UNIFAC
    /\ clamped
    /\ pc = "returned"

(* C3: a top-level solver call runs the *_phi_phi variant iff vle_method   *)
(* is "phi-phi" and the *_UNIFAC variant iff it is "UNIFAC", with the      *)
(* caller's composition, known variable, tol and kmax; for any other       *)
(* vle_method it raises NotImplementedError and nothing has run.           *)
C3_DispatchRunsOneVariant ==
    (pc # "idle" /\ call.fn \in Solvers) =>
        /\ vle_method = "phi-phi" => (variant = PhiPhi(call.fn) /\ fwd = call)
        /\ vle_method = "UNIFAC" => (variant = Unifac(call.fn) /\ fwd = call)
        /\ vle_method \notin {"phi-phi", "UNIFAC"} =>
              /\ pc = "raised" /\ exc = "NotImplementedError"
              /\ variant = NoVariant /\ ite = 0 /\ did = {} /\ subcalls = <<>>

C3_Witness ==
    /\ pc = "returned"
    /\ variant = Unifac("getDewPointTemperature")
    /\ fwd.kmax = MaxKmax
    /\ ite = MaxKmax

(* C4 (as amended): the outer loop runs another pass exactly while          *)
(* err > tol and ite < kmax, so it stops at the first loop test at which    *)
(* err > tol is false (err <= tol, or err is NaN) or ite >= kmax; a         *)
(* returned ite satisfies 0 <= ite <= kmax, and ite < kmax implies that     *)
(* the last error is not greater than tol.                                  *)
C4_LoopStopsAtGuard ==
    /\ [](pc = "returned" =>
            /\ 0 <= ite /\ ite <= fwd.kmax
            /\ ite < fwd.kmax => ~Gt(err, fwd.tol))
    /\ [][(pc = "loop" /\ ite' = ite + 1) =>
            (Gt(err, fwd.tol) /\ ite < fwd.kmax)]_vars
    /\ [][(pc = "loop" /\ pc' \in {"returned", "raised"}) =>
            (~Gt(err, fwd.tol) \/ ite >= fwd.kmax)]_vars

C4_Witness ==
    /\ pc = "returned"
    /\ ite >= 1
    /\ ite < fwd.kmax
    /\ err = fwd.tol

(* C4 as claimed: a solver that has stopped has error < tol or              *)
(* iterations >= kmax, and 0 <= ite <= kmax.                                *)
C4_AsClaimed ==
    pc = "returned" =>
        /\ 0 <= ite /\ ite <= fwd.kmax
        /\ ite < fwd.kmax => (err # NaN /\ err < fwd.tol)

(* C5: a solver whose loop has ended without meeting the tolerance has      *)
(* returned its result; it has not raised.                                  *)
C5_NonConvergenceReturns ==
    (InCall /\ "err" \in locals /\ pc \in {"returned", "raised"}
        /\ exc # "ValueError" /\ Gt(err, fwd.tol)) => pc = "returned"

(* C6: _RachfordRice stops once the step is below tol or the iteration      *)
(* counter exceeds kmax, so it never runs more than kmax + 1 iterations.    *)
C6_RachfordRiceBoundedByKmax == rr_iter <= rr_kmax + 1

(* C7 (as amended): getFlash raises ValueError exactly when P < Pdew or     *)
(* P > Pbubble (P equal to either is accepted); it raises before any flash  *)
(* iteration or _RachfordRice call, after one pair of bracket solves, and   *)
(* the call then ends.                                                      *)
C7_RaisesOutsideClosedBracket ==
    /\ [](BracketDone =>
            /\ (pc = "raised" /\ exc = "ValueError")
                  <=> (fwd.P < pd \/ fwd.P > pb)
            /\ exc = "ValueError" =>
                  (pc = "raised" /\ ite = 0 /\ "rr" \notin did /\ Len(subcalls) = 2))
    /\ [][exc = "ValueError" => pc' = "idle"]_vars

C7_Witness ==
    /\ BracketDone
    /\ pc = "raised"
    /\ exc = "ValueError"
    /\ fwd.P < pd
    /\ pd < pb

(* C7 as claimed: getFlash goes on only when P lies strictly between the    *)
(* dew and the bubble pressure.                                             *)
C7_AsClaimed ==
    (BracketDone /\ exc # "ValueError") => (pd < fwd.P /\ fwd.P < pb)

(* C9: a composition of the wrong length or not summing to 1 makes every    *)
(* variant raise AssertionError with nothing done: no initial guess, EOS    *)
(* evaluation, activity-coefficient call, saturation pressure, nested       *)
(* bracket solve, Rachford-Rice call or iteration; the mixture object is    *)
(* unchanged by the failing check.                                          *)
C9_InputContractFailsFast ==
    /\ []((InCall /\ pc # "entry" /\ ~(fwd.len = n /\ fwd.dev = 0)) =>
            /\ pc = "raised" /\ exc = "AssertionError"
            /\ did = {} /\ ite = 0 /\ subcalls = <<>>
            /\ locals = Body(variant).params)
    /\ [][(pc = "entry" /\ pc' = "raised") => mixvars' = mixvars]_vars

C9_Witness ==
    /\ pc = "raised"
    /\ exc = "AssertionError"
    /\ variant = Unifac("getFlash")
    /\ fwd.len = n
    /\ fwd.dev # 0

(* C10: a composition of the right length whose entries sum to 1 within     *)
(* one unit in the last place is accepted by the composition check.         *)
C10_SumWithinToleranceAccepted ==
    (InCall /\ fwd.len = n /\ fwd.dev >= 0 - 1 /\ fwd.dev <= 1) =>
        ~(pc = "raised" /\ exc = "AssertionError")

(* C19: every iterative sub-solve made for a top-level solver call runs     *)
(* with the tol and the kmax of that call: none is given another kmax, a    *)
(* fixed tolerance or the callee's defaults.                                *)
C19_SubSolvesUseCallerParams ==
    InCall => \A i \in 1..Len(subcalls) :
                 subcalls[i].tol = "caller" /\ subcalls[i].kmax = fwd.kmax

(* C20: in getFlash_phi_phi and getFlash_UNIFAC, at the first test of the   *)
(* outer loop v is (pb - P)/(pb - pd) and x, y are the equal split, not the *)
(* compositions of the bracket solves; the K-values of the first            *)
(* _RachfordRice call are computed from the equal split.                    *)
C20_FirstFlashIterationFromEqualSplit ==
    variant.fn = "getFlash" =>
        /\ (pc = "loop" /\ ite = 0) =>
              /\ comp = "equal_split"
              /\ v = IF pb = pd THEN NaN
                     ELSE ((pb - fwd.P) * VScale) \div (pb - pd)
        /\ ite = 1 => kfrom = "equal_split"
        /\ ite > 1 => kfrom = "rachford_rice"

C20_Witness ==
    /\ variant = Unifac("getFlash")
    /\ pc = "loop"
    /\ ite = 1
    /\ kfrom = "equal_split"
    /\ pd < fwd.P /\ fwd.P < pb
    /\ Len(subcalls) = 3

C15_LimitingFormNearZeroDiscriminant ==
    phicalc.done =>
        LET d == phicalc.deltam * phicalc.deltam - 4 * phicalc.epsilonm
        IN /\ phicalc.branch = "limit" <=> (0 - LIMIT_THRESHOLD < d /\ d < LIMIT_THRESHOLD)
           /\ phicalc.branch # "limit" =>
                 /\ phicalc.branch = "general"
                 /\ phicalc.sqrt # 0
                 /\ phicalc.pow15 # 0

C15_Witness ==
    /\ phicalc.done
    /\ phicalc.branch = "general"
    /\ phicalc.d = 0 - LIMIT_THRESHOLD
    /\ phicalc.sqrt = NaN

(* C16 (as amended): getDeltaDepartureProps returns departure(state) minus  *)
(* departure(reference); getCpHSGUA returns for each phase the ideal-gas    *)
(* property change MINUS that difference, the liquid result from the        *)
(* minimum Z root at both states, the vapor result from the maximum Z root  *)
(* at both states.                                                          *)
C16_RealChangeIsIdealMinusDepartureDelta ==
    /\ (props.pc = "done" /\ props.fn = "getDeltaDepartureProps"
           /\ props.res.outcome = "returned") =>
          props.res.delta = props.dep_state * props.res.Z
                              - props.dep_ref * props.res.Zref
    /\ (props.pc = "done" /\ props.fn = "getCpHSGUA"
           /\ props.res.outcome = "returned") =>
          /\ props.res.pliq = props.ig - (props.dep_state * Min(props.zs)
                                            - props.dep_ref * Min(props.zsref))
          /\ props.res.pvap = props.ig - (props.dep_state * Max(props.zs)
                                            - props.dep_ref * Max(props.zsref))

C16_Witness ==
    /\ props.pc = "done"
    /\ props.fn = "getCpHSGUA"
    /\ props.res.outcome = "returned"
    /\ Cardinality(props.zs) = 2
    /\ props.res.pliq # props.ig
    /\ props.res.pvap # props.ig
    /\ props.res.pliq # props.res.pvap

(* C16 as claimed: getCpHSGUA returns the ideal-gas change PLUS the          *)
(* departure difference state - reference.                                  *)
C16_AsClaimed ==
    (props.pc = "done" /\ props.fn = "getCpHSGUA" /\ props.res.outcome = "returned") =>
        /\ props.res.pliq = props.ig + (props.dep_state * Min(props.zs)
                                          - props.dep_ref * Min(props.zsref))
        /\ props.res.pvap = props.ig + (props.dep_state * Max(props.zs)
                                          - props.dep_ref * Max(props.zsref))

(* C17: without Cp coefficients (and with a non-empty root set) getAllProps *)
(* returns; it has called neither getIGProps nor getCpHSGUA; IGProps and    *)
(* Props of both records are 0; the log of both records holds the message;  *)
(* Z, V, rho, P, T and Fugacity of the liquid come from the smallest root   *)
(* and those of the vapor from the largest.                                 *)
C17_MissingCpGivesSentinels ==
    (props.pc = "done" /\ props.fn = "getAllProps" /\ ~props.hasCp /\ props.zs # {}) =>
        /\ props.res.outcome = "returned"
        /\ props.res.calls \cap {"getIGProps", "getCpHSGUA"} = {}
        /\ "getFugacity" \in props.res.calls
        /\ \A ph \in {props.res.liq, props.res.vap} :
              /\ ph.IGProps = 0 /\ ph.Props = 0
              /\ \E i \in 1..Len(ph.log) : ph.log[i] = MISSING_CP_LOG
              /\ ph.V = ph.Z * props.rtp
              /\ ph.rho.known <=> props.molwt # 0
              /\ ph.Fugacity.of = ph.Z
              /\ ph.P = "P" /\ ph.T = "T"
        /\ props.res.liq.Z = Min(props.zs)
        /\ props.res.vap.Z = Max(props.zs)

C17_Witness ==
    /\ props.pc = "done"
    /\ props.fn = "getAllProps"
    /\ ~props.hasCp
    /\ props.quad_fails
    /\ props.zsref = {}
    /\ props.res.outcome = "returned"
    /\ props.res.liq.Z # props.res.vap.Z

(* C18: when the departure group of getAllProps fails (the quadrature       *)
(* raises, or the reference state has no root) while Z and fugacity can be  *)
(* computed, getAllProps still returns and delivers Z, V and fugacity.      *)
C18_GroupsFailIndependently ==
    (props.pc = "done" /\ props.fn = "getAllProps" /\ props.zs # {}
        /\ props.hasCp /\ (props.quad_fails \/ props.zsref = {})) =>
            /\ props.res.outcome = "returned"
            /\ "getFugacity" \in props.res.calls

(* C14: a caller of getZfromPT that meets an empty root set surfaces the    *)
(* error: a diagram-data generator does not return when the solve of one    *)
(* of its points ended on an empty root set, and never returns for a point  *)
(* data computed for another point (or never computed).                     *)
C14_EmptyRootSetSurfaces ==
    gen.pc = "returned" =>
        \A j \in 0..(gen.L - 1) :
            /\ gen.cause[j] # "empty_roots"
            /\ gen.cause[j] = "ok" => (gen.y[j] = j /\ gen.u[j] = j)

(* C11: two getFlash calls on the same mixture with the same arguments and  *)
(* the same vle_method end the same way and return the same values.         *)
C11_SameInputsSameResult ==
    \A i \in 1..Len(runs), j \in 1..Len(runs) :
        (runs[i].args = runs[j].args /\ runs[i].method = runs[j].method) =>
            runs[i].result = runs[j].result

\* the solve of the arguments a run alone on the mixture
RECURSIVE SolveAlone(_, _)
SolveAlone(e, fr) ==
    IF LoopCond(fr.err, fr.args.tol, fr.ite, fr.args.kmax)
    THEN LET pb1 == e.step[fr.args.P][fr.pb]
         IN SolveAlone(e, [fr EXCEPT !.ite = fr.ite + 1, !.pb = pb1,
                                     !.err = AbsDiff(pb1, fr.pb)])
    ELSE fr

C27_InitialVaporFractionWellDefined ==
    (BracketDone /\ pc = "loop" /\ ite = 0) =>
        /\ pb # pd
        /\ v # NaN
        /\ 0 <= v /\ v <= VScale

(* C29: after construction and after any sequence of setVLEmethod calls     *)
(* with arbitrary strings, vle_method is "phi-phi" or "UNIFAC", so no       *)
(* dispatcher reaches its NotImplementedError branch.                       *)
C29_MethodAlwaysDispatchable ==
    /\ vle_method \in {"phi-phi", "UNIFAC"}
    /\ ~(pc = "raised" /\ exc = "NotImplementedError")

(* C26: when the solve of grid point i raises inside a diagram-data         *)
(* generator, the outputs of point i are copies of those of point i-1, or   *)
(* of point i+1 when i is the first point; every entry of the returned      *)
(* arrays is a value some successful solve produced, and every array has    *)
(* one entry per grid point.                                                *)
C26_FailedPointCopiesNeighbour ==
    gen.pc = "returned" =>
        /\ \A a \in {"y", "u", "phi_vap_vec", "phi_liq_vec", "kvec"} :
              /\ DOMAIN gen[a] = 0..(gen.L - 1)
              /\ \A j \in 0..(gen.L - 1) :
                    /\ gen[a][j] \in 0..(gen.L - 1)
                    /\ gen.cause[gen[a][j]] = "ok"
                    /\ (gen.cause[j] # "ok" /\ j > 0) => gen[a][j] = gen[a][j - 1]
                    /\ (gen.cause[j] # "ok" /\ j = 0 /\ gen.L > 1) =>
                          gen[a][j] = gen[a][j + 1]

(* C30: _helper_bubble_T_guess_from_wilson iterates from the supplied        *)
(* temperature until its step is below 1e-8 or 1000 iterations have run, so  *)
(* the temperature it returns differs from its input whenever the input is   *)
(* not a root of the Wilson bubble equation; getBubblePointTemperature_      *)
(* phi_phi starts from this refined value, not from the plain sum(x*Tbi).    *)
C30_WilsonGuessRefinesInput ==
    (wilson.pc = "done" /\ wilson.steps[1] # 0) => wilson.T_out # wilson.T_in

(* C25: getPSat_i returns the Antoine pressure, without creating or calling  *)
(* the pure-substance saturation solver, exactly when the substance has      *)
(* Antoine coefficients and T is inside their range; in every other case it  *)
(* returns what the pure-substance saturation solve returns when started     *)
(* from the getPvpAW estimate at T, and the Antoine pressure is not used.    *)
C25_AntoineInsideRangeElseEosSolve ==
    sat.pc = "done" =>
        LET called == {sat.res.calls[j] : j \in 1..Len(sat.res.calls)}
        IN IF sat.in.has_antoine /\ sat.in.check_antoine_range
           THEN /\ sat.res.P = sat.in.antoine
                /\ called \cap {"EOSPureSubstanceInterface", "getPvp", "getPvpAW"} = {}
           ELSE /\ sat.res.P = sat.in.eos[sat.in.aw]
                /\ sat.res.start = sat.in.aw
                /\ {"getPvpAW", "getPvp"} \subseteq called
                /\ "getPvpAntoine" \notin called

C25_Witness ==
    /\ sat.pc = "done"
    /\ sat.in.has_antoine
    /\ ~sat.in.check_antoine_range
    /\ sat.res.P = sat.in.eos[sat.in.aw]
    /\ sat.res.P # sat.in.antoine
    /\ sat.in.eos[sat.in.aw] # sat.in.eos[sat.in.antoine]

(* C24: each iteration of either _RachfordRice is exactly one Newton step    *)
(* on f(v) = sum(z*(K-1)/(1+v*(K-1))): v1 = v0 - f(v0)/f'(v0) with           *)
(* f'(v) = -sum(z*(K-1)^2/(1+v*(K-1))^2), and the iterate is not clamped.    *)
C24_IterationIsNewtonStep ==
    (newton.pc = "done" /\ newton.res.exc = "none") =>
        LET in == newton.in
            fprime == FNeg(FSum([i \in 1..2 |->
                        FDiv(FMul(in.z[i], FMul(FSub(in.k[i], FOne),
                                                FSub(in.k[i], FOne))),
                             FMul(FAdd(FOne, FMul(in.v0, FSub(in.k[i], FOne))),
                                  FAdd(FOne, FMul(in.v0, FSub(in.k[i], FOne)))))], 2))
        IN /\ newton.res.dfdv = fprime
           /\ newton.res.v1 = FSub(in.v0, FDiv(newton.res.f, fprime))

(* C21: in the four temperature solvers every pass computes                 *)
(* T_new = T1 - f1*(T1 - T2)/(f1 - f2), then shifts (T2, f2) := (T1, f1)    *)
(* and (T1, f1) := (T_new, residual at T_new); after every pass f1 is the   *)
(* residual evaluated at T1 and f2 the one evaluated at T2, and the error   *)
(* of the pass is |f1|. No sign or bracket test guards the update.          *)
C21_SecantUpdateAndShift ==
    (solve.pc \in {"loop", "returned"} /\ IsTemperature(solve.variant)
        /\ solve.ite >= 1) =>
        LET q == solve.sec
            o == solve.old
            F(a) == IF a = NaN THEN NaNF ELSE Frac(a, SumOne)
        IN /\ q.T1 = FSub(o.T1, FDiv(FMul(F(o.f1), FSub(o.T1, o.T2)),
                                     FSub(F(o.f1), F(o.f2))))
           /\ q.T2 = o.T1
           /\ q.f2 = o.f1
           /\ q.f1 = (IF solve.yt = NaN THEN NaN ELSE solve.yt - SumOne)
           /\ q.T1_ver = solve.ite
           /\ q.f1_at = q.T1_ver
           /\ q.f2_at = q.T2_ver
           /\ solve.err = (IF q.f1 = NaN THEN NaN ELSE Abs(q.f1))

C21_Witness ==
    /\ solve.pc = "returned"
    /\ solve.variant = PhiPhi("getDewPointTemperature")
    /\ solve.ite = 2
    /\ solve.old.f1 # NaN /\ solve.old.f2 # NaN
    /\ solve.old.f1 < 0 /\ solve.old.f2 < 0 /\ solve.old.f1 # solve.old.f2
    /\ ~IsNaNF(solve.sec.T1)
    /\ solve.sec.T1 # solve.sec.T2
    /\ solve.sec.f1 = 0
    /\ solve.err = 0

(* C22: a pass of a phi-phi pressure solver multiplies (bubble) or divides   *)
(* (dew) the pressure by the normalization sum, sets the error to            *)
(* |1 - sum|, and renormalizes the other-phase composition, so that the      *)
(* composition carried into the next pass and the one returned sum to 1.     *)
C22_PressureUpdateRenormalizes ==
    (solve.pc \in {"loop", "returned"} /\ IsPressure(solve.variant)
        /\ solve.ite >= 1) =>
        /\ solve.P = (IF IsBubblePressure(solve.variant)
                      THEN FMul(solve.Pold, SumF(solve.yt))
                      ELSE FDiv(solve.Pold, SumF(solve.yt)))
        /\ solve.err = AbsDiff(SumOne, solve.yt)
        /\ (solve.yt # NaN /\ solve.yt # 0) => solve.csum = SumOne

(* C23: in every pass of every phi-phi solver the liquid fugacity            *)
(* coefficients are evaluated at the composition x with the smallest root    *)
(* of the root set computed at x, the vapor ones at y with the largest root  *)
(* of the root set computed at y, both root sets coming from two calls made  *)
(* in that same pass at the current estimate of the unknown; getPhiVap uses  *)
(* the largest root of the set it computes at y.                             *)
C23_RootSelectionPerPhase ==
    (solve.pc \in {"loop", "returned"} /\ solve.evals.pass >= 1) =>
        LET e == solve.evals
            cur == IF IsPressure(solve.variant) THEN solve.ite - 1
                   ELSE IF IsTemperature(solve.variant) THEN solve.ite ELSE 0
        IN /\ e.pass = solve.ite
           /\ e.zsvap.comp = "y" /\ e.zsvap.at = cur
           /\ e.phivap.comp = "y" /\ e.phivap.at = cur
           /\ \A r \in e.zsvap.roots : e.phivap.Z >= r
           /\ e.phivap.Z \in e.zsvap.roots
           /\ solve.variant.kind # "UNIFAC" =>
                 /\ e.zsliq.comp = "x" /\ e.zsliq.at = cur
                 /\ e.philiq.comp = "x" /\ e.philiq.at = cur
                 /\ \A r \in e.zsliq.roots : e.philiq.Z <= r
                 /\ e.philiq.Z \in e.zsliq.roots

C23_Witness ==
    /\ solve.pc = "returned"
    /\ solve.variant = PhiPhi("getBubblePointTemperature")
    /\ solve.ite = 2
    /\ solve.evals.pass = 2
    /\ solve.evals.zsliq.roots = 1..MaxRoot
    /\ solve.evals.zsvap.roots = 1..MaxRoot
    /\ solve.evals.philiq.Z < solve.evals.phivap.Z

(* C28: a flash that returns after at least one outer pass returns           *)
(* x = z/(1 + v*(K - 1)) and y = K*x for the v and the K it returns, so      *)
(* that z = (1 - v)*x + v*y holds for every component.                       *)
C28_FlashSplitFromReturnedVK ==
    (solve.pc = "returned" /\ IsFlash(solve.variant) /\ solve.ite >= 1) =>
        \A i \in 1..2 :
            /\ solve.x[i] = FDiv(solve.z[i],
                                 FAdd(FOne, FMul(VF(solve.v),
                                                 FSub(solve.k[i], FOne))))
            /\ solve.y[i] = FMul(solve.k[i], solve.x[i])
            /\ ~IsNaNF(solve.x[i]) =>
                  solve.z[i] = FAdd(FMul(FSub(FOne, VF(solve.v)), solve.x[i]),
                                    FMul(VF(solve.v), solve.y[i]))

C28_Witness ==
    /\ solve.pc = "returned"
    /\ solve.variant = Unifac("getFlash")
    /\ solve.ite = 2
    /\ solve.v > 0 /\ solve.v < VScale
    /\ solve.z = [i \in 1..2 |-> Frac(1, 2)]
    /\ solve.x[1] # solve.y[1]
    /\ solve.x[1] # solve.z[1]

============================================================================
